---- MODULE Spec2Model ----
(***************************************************************************)
(* A model of the medallion pipeline (bronze -> silver -> gold):           *)
(*   src/src/silver_pipeline.py   cleaning primitives, entity cleaners,    *)
(*                                dispatcher, silver driver                *)
(*   src/src/gold_pipeline.py     load-and-collapse, dimensions, facts     *)
(*   src/src/bronze_pipeline.py   bronze driver                            *)
(*   src/src/utils.py             clean_directory, export, listing         *)
(*   src/src/pipeline.py          run_pipeline                             *)
(*                                                                         *)
(* Conventions.                                                            *)
(*   - A nullable cell is a sequence: NULL == <<>> stands for None, pd.NA,  *)
(*     NaN and NaT; Some(x) == <<x>> is a present value x.                 *)
(*   - A text is a sequence of characters; a character is a one-token      *)
(*     string ("a", "A", " ", "a~" for the precomposed a-tilde U+00E3,     *)
(*     "A~" for U+00C3, "~" for the combining tilde U+0303).               *)
(*   - Identifiers (customer_id, order_id, product_id) are modelled by     *)
(*     their rank in string order, so that sorting by id is sorting by     *)
(*     number.                                                             *)
(*   - Timestamps are modelled by day ordinals.                            *)
(***************************************************************************)
EXTENDS Integers, Sequences, FiniteSets, TLC

VARIABLES
    pc,         \* control point of the operation or of run_pipeline
    value,      \* argument of the primitive under check
    returned,   \* outcomes of the calls made so far (a sequence)
    file_name,  \* name of the bronze file handed to the silver driver
    df,         \* table handed to an entity cleaner
    cleaned,    \* table the cleaner returned
    printed,    \* number of diagnostics printed by the operation
    fs,         \* the directories and files clean_directory works on
    disk,       \* input/ and output/ as run_pipeline sees them
    file_list,  \* files the current stage of run_pipeline has still to process
    clock,      \* the wall clock, in ticks
    run,        \* number of the current run of the pipeline
    first_run   \* what the first run left in output/

primitiveVars == <<value, returned>>

cleanerVars == <<file_name, df, cleaned, printed>>

pipelineVars == <<disk, file_list, clock, run, first_run>>

vars == <<pc, primitiveVars, cleanerVars, fs, pipelineVars>>

\* A variable that a specification does not use keeps this value.
Unused == "unused"

NoPrimitive == value = Unused /\ returned = <<>>

NoCleaner == file_name = Unused /\ df = Unused /\ cleaned = Unused /\ printed = 0

NoDirectory == fs = Unused

NoPipeline ==
    /\ disk = Unused
    /\ file_list = Unused
    /\ clock = Unused
    /\ run = Unused
    /\ first_run = Unused

------------------------------------------------------------------------------
(* Bounds of the model *)

\* longest text given to a string primitive
MaxLen == 3

\* most rows of a table given to an entity cleaner
MaxRows == 2

\* longest path, in symbols, given to clean_directory
MaxPathLen == 4

------------------------------------------------------------------------------
(* Nullable cells *)

NULL == <<>>

Some(x) == <<x>>

IsNull(c) == c = NULL

NotNull(c) == c # NULL

Val(c) == c[1]

\* Outcome of a call: a returned value or a raised exception.
Return(x) == [raised |-> FALSE, v |-> x]

Raise(e) == [raised |-> TRUE, exc |-> e]

\* All sequences over S of length at most n.
SeqUpTo(S, n) == UNION {[1..k -> S] : k \in 0..n}

------------------------------------------------------------------------------
(* Characters and the str methods the primitives use *)

Whitespace == {" "}

Digits == {"0", "1", "2", "3", "4", "5", "6", "7", "8", "9"}

\* unicodedata.category(c) == 'Mn'
CombiningMarks == {"~"}

\* str.lower() on one character
LowerChar(c) ==
    CASE c = "A" -> "a"
      [] c = "A~" -> "a~"
      [] c = "D" -> "d"
      [] c = "F" -> "f"
      [] c = "I" -> "i"
      [] c = "L" -> "l"
      [] c = "N" -> "n"
      [] c = "O" -> "o"
      [] c = "P" -> "p"
      [] c = "R" -> "r"
      [] c = "S" -> "s"
      [] c = "T" -> "t"
      [] c = "U" -> "u"
      [] c = "W" -> "w"
      [] OTHER -> c

Lower(s) == [i \in 1..Len(s) |-> LowerChar(s[i])]

\* str.upper() on one character
UpperChar(c) ==
    CASE c = "a" -> "A"
      [] c = "j" -> "J"
      [] c = "p" -> "P"
      [] c = "r" -> "R"
      [] c = "s" -> "S"
      [] c = "x" -> "X"
      [] OTHER -> c

Upper(s) == [i \in 1..Len(s) |-> UpperChar(s[i])]

RECURSIVE LStrip(_)
LStrip(s) ==
    IF s # <<>> /\ Head(s) \in Whitespace THEN LStrip(Tail(s)) ELSE s

RECURSIVE RStrip(_)
RStrip(s) ==
    IF s # <<>> /\ s[Len(s)] \in Whitespace
    THEN RStrip(SubSeq(s, 1, Len(s) - 1))
    ELSE s

\* str.strip()
Strip(s) == RStrip(LStrip(s))

\* unicodedata.normalize('NFD', .) on one character: a precomposed letter
\* becomes its base letter followed by the combining mark.
DecomposeChar(c) ==
    CASE c = "a~" -> <<"a", "~">>
      [] c = "A~" -> <<"A", "~">>
      [] OTHER -> <<c>>

RECURSIVE NFD(_)
NFD(s) == IF s = <<>> THEN <<>> ELSE DecomposeChar(Head(s)) \o NFD(Tail(s))

RECURSIVE DropMarks(_)
DropMarks(s) ==
    IF s = <<>> THEN <<>>
    ELSE IF Head(s) \in CombiningMarks THEN DropMarks(Tail(s))
    ELSE <<Head(s)>> \o DropMarks(Tail(s))

\* _clean_string: None for a null or empty value, otherwise the value
\* stripped, lowercased, NFD-decomposed and with the Mn characters removed.
CleanString(v) ==
    IF IsNull(v) \/ Val(v) = <<>> THEN NULL
    ELSE Some(DropMarks(NFD(Lower(Strip(Val(v))))))

------------------------------------------------------------------------------
(* The string normalizer applied once and then to its own result *)

StringAlphabet == {" ", "a", "A", "a~", "A~", "~"}

StringValues == {NULL} \cup {Some(s) : s \in SeqUpTo(StringAlphabet, MaxLen)}

InitString ==
    /\ pc = "start"
    /\ value \in StringValues
    /\ returned = <<>>
    /\ NoCleaner
    /\ NoDirectory
    /\ NoPipeline

\* normalize(s)
CallCleanString ==
    /\ pc = "start"
    /\ returned' = <<CleanString(value)>>
    /\ pc' = "once"
    /\ UNCHANGED <<value, cleanerVars, fs, pipelineVars>>

\* normalize(normalize(s))
CallCleanStringAgain ==
    /\ pc = "once"
    /\ returned' = Append(returned, CleanString(returned[1]))
    /\ pc' = "twice"
    /\ UNCHANGED <<value, cleanerVars, fs, pipelineVars>>

NextString == CallCleanString \/ CallCleanStringAgain

SpecString == InitString /\ [][NextString]_vars

\* C9: for every string s the string normalizer is idempotent,
\* normalize(normalize(s)) == normalize(s).
C9_CleanStringIdempotent ==
    pc = "twice" => returned[2] = returned[1]

------------------------------------------------------------------------------
(* The quantity normalizer *)

\* text_to_int
TextToInt(s) ==
    CASE s = <<"o", "n", "e">> -> 1
      [] s = <<"t", "w", "o">> -> 2
      [] s = <<"t", "h", "r", "e", "e">> -> 3
      [] s = <<"f", "o", "u", "r">> -> 4

InTextToInt(s) ==
    s \in {<<"o", "n", "e">>, <<"t", "w", "o">>,
           <<"t", "h", "r", "e", "e">>, <<"f", "o", "u", "r">>}

DigitValue(c) ==
    CASE c = "0" -> 0 [] c = "1" -> 1 [] c = "2" -> 2 [] c = "3" -> 3
      [] c = "4" -> 4 [] c = "5" -> 5 [] c = "6" -> 6 [] c = "7" -> 7
      [] c = "8" -> 8 [] c = "9" -> 9

\* value of a sequence of decimal digits (0 for the empty sequence)
RECURSIVE DigitsValue(_)
DigitsValue(s) ==
    IF s = <<>> THEN 0
    ELSE 10 * DigitsValue(SubSeq(s, 1, Len(s) - 1)) + DigitValue(s[Len(s)])

\* position of the first "." of s, or Len(s) + 1
RECURSIVE DotAt(_)
DotAt(s) ==
    IF s = <<>> \/ Head(s) = "." THEN 1 ELSE 1 + DotAt(Tail(s))

\* float(s) for the sign, the unsigned text, its integer part and its
\* fraction digits
FloatOfParts(neg, body, ip, fp) ==
    IF body \in {<<"i", "n", "f">>,
                 <<"i", "n", "f", "i", "n", "i", "t", "y">>}
    THEN [kind |-> "inf", neg |-> neg]
    ELSE IF body = <<"n", "a", "n">>
    THEN [kind |-> "nan", neg |-> neg]
    ELSE IF /\ \A i \in 1..Len(ip) : ip[i] \in Digits
            /\ \A i \in 1..Len(fp) : fp[i] \in Digits
            /\ Len(ip) + Len(fp) > 0
    THEN [kind |-> "finite", neg |-> neg,
          int |-> DigitsValue(ip), frac |-> fp]
    ELSE [kind |-> "ValueError"]

\* float(s) for the sign and the unsigned text, cut at its first "."
FloatOfBody(neg, body) ==
    FloatOfParts(neg, body, SubSeq(body, 1, DotAt(body) - 1),
                 SubSeq(body, DotAt(body) + 1, Len(body)))

\* float(s) for a stripped, lowercased text: a finite decimal numeral
\* ([-]digits[.digits], at least one digit), an infinity, a NaN, or ValueError.
\* A finite value is kept as sign, integer part and fraction digits.
ParseFloat(s) ==
    FloatOfBody(s # <<>> /\ Head(s) = "-",
                IF s # <<>> /\ Head(s) = "-" THEN Tail(s) ELSE s)

\* int(f): truncation toward zero; NaN raises ValueError and an infinity
\* raises OverflowError.
IntOfFloat(f) ==
    CASE f.kind = "finite" -> Return(IF f.neg THEN 0 - f.int ELSE f.int)
      [] f.kind = "nan" -> Raise("ValueError")
      [] f.kind = "inf" -> Raise("OverflowError")
      [] f.kind = "ValueError" -> Raise("ValueError")

\* except ValueError: return 0
CaughtValueError(conv) ==
    IF conv.raised /\ conv.exc = "ValueError" THEN Return(0) ELSE conv

\* _clean_quantity on the stripped, lowercased text
QuantityOfText(val_str) ==
    IF InTextToInt(val_str) THEN Return(TextToInt(val_str))
    ELSE CaughtValueError(IntOfFloat(ParseFloat(val_str)))

\* _clean_quantity: the outcome of the call. Only ValueError is caught.
CleanQuantity(v) ==
    IF IsNull(v) \/ Val(v) = <<>> THEN Return(0)
    ELSE QuantityOfText(Lower(Strip(Val(v))))

NumeralAlphabet == {"-", "3", "7", ".", " "}

QuantityWords ==
    {<<"o", "n", "e">>, <<"t", "w", "o">>, <<"T", "W", "O">>,
     <<" ", "T", "w", "o", " ">>, <<"t", "h", "r", "e", "e">>,
     <<"f", "o", "u", "r">>, <<"F", "O", "U", "R">>,
     <<"b", "a", "n", "a", "n", "a">>, <<"t", "w", "o", "3">>,
     <<"i", "n", "f">>, <<"-", "i", "n", "f">>, <<"I", "N", "F">>,
     <<"i", "n", "f", "i", "n", "i", "t", "y">>,
     <<"n", "a", "n">>, <<"N", "a", "N">>}

QuantityValues ==
    {NULL}
    \cup {Some(s) : s \in SeqUpTo(NumeralAlphabet, MaxLen) \cup QuantityWords}

InitQuantity ==
    /\ pc = "start"
    /\ value \in QuantityValues
    /\ returned = <<>>
    /\ NoCleaner
    /\ NoDirectory
    /\ NoPipeline

CallCleanQuantity ==
    /\ pc = "start"
    /\ returned' = <<CleanQuantity(value)>>
    /\ pc' = "done"
    /\ UNCHANGED <<value, cleanerVars, fs, pipelineVars>>

NextQuantity == CallCleanQuantity

SpecQuantity == InitQuantity /\ [][NextQuantity]_vars

\* The number the claim gives for a text: 0 for null or empty, the vocabulary
\* number, the truncated number for a numeral, 0 for everything else.
ExpectedQuantity(v) ==
    IF IsNull(v) \/ Val(v) = <<>> THEN 0
    ELSE LET s == Lower(Strip(Val(v)))
             f == ParseFloat(s)
         IN  IF InTextToInt(s) THEN TextToInt(s)
             ELSE IF f.kind = "finite"
             THEN (IF f.neg THEN 0 - f.int ELSE f.int)
             ELSE 0

\* C10: the quantity normalizer never raises: null or empty gives 0, a
\* vocabulary word (case-insensitive) gives its number, a numeral gives the
\* number truncated to an integer, and every unparsable text, "inf"
\* included, gives 0.
C10_CleanQuantityNeverRaises ==
    pc = "done" =>
        /\ ~returned[1].raised
        /\ returned[1].v = ExpectedQuantity(value)

------------------------------------------------------------------------------
(* The other cleaning primitives *)

\* valid_states: the 27 UFs
ValidStates ==
    {<<"A", "C">>, <<"A", "L">>, <<"A", "P">>, <<"A", "M">>, <<"B", "A">>,
     <<"C", "E">>, <<"D", "F">>, <<"E", "S">>, <<"G", "O">>, <<"M", "A">>,
     <<"M", "T">>, <<"M", "S">>, <<"M", "G">>, <<"P", "A">>, <<"P", "B">>,
     <<"P", "R">>, <<"P", "E">>, <<"P", "I">>, <<"R", "J">>, <<"R", "N">>,
     <<"R", "S">>, <<"R", "O">>, <<"R", "R">>, <<"S", "C">>, <<"S", "P">>,
     <<"S", "E">>, <<"T", "O">>}

\* _clean_state_code
CleanStateCode(v) ==
    IF IsNull(v) \/ Val(v) = <<>> THEN NULL
    ELSE LET state == Upper(Strip(Val(v)))
         IN  IF state \in ValidStates THEN Some(state) ELSE NULL

\* str.replace("+55", "")
RECURSIVE RemoveCountryCode(_)
RemoveCountryCode(s) ==
    IF s = <<>> THEN <<>>
    ELSE IF Len(s) >= 3 /\ SubSeq(s, 1, 3) = <<"+", "5", "5">>
    THEN RemoveCountryCode(SubSeq(s, 4, Len(s)))
    ELSE <<Head(s)>> \o RemoveCountryCode(Tail(s))

\* ''.join(filter(str.isdigit, phone))
RECURSIVE KeepDigits(_)
KeepDigits(s) ==
    IF s = <<>> THEN <<>>
    ELSE IF Head(s) \in Digits THEN <<Head(s)>> \o KeepDigits(Tail(s))
    ELSE KeepDigits(Tail(s))

InvalidPhone == <<"i", "n", "v", "a", "l", "i", "d", "_", "p", "h", "o", "n", "e">>

\* _clean_phone
CleanPhone(v) ==
    IF IsNull(v) \/ Val(v) = <<>> \/ Lower(Val(v)) = InvalidPhone THEN NULL
    ELSE LET digits == KeepDigits(RemoveCountryCode(Val(v)))
         IN  IF Len(digits) < 10 \/ Len(digits) > 11 THEN NULL
             ELSE Some(digits)

\* str.replace(old, new) for one-character old; new is a text
RECURSIVE ReplaceChar(_, _, _)
ReplaceChar(s, old, new) ==
    IF s = <<>> THEN <<>>
    ELSE (IF Head(s) = old THEN new ELSE <<Head(s)>>)
         \o ReplaceChar(Tail(s), old, new)

HasChar(s, c) == \E i \in 1..Len(s) : s[i] = c

\* A normalizer that takes "," for the decimal separator and leaves "." alone.
MonetaryTextKeepsDots(stripped) == ReplaceChar(stripped, ",", <<".">>)

\* the separators of _clean_monetary_value: with both "," and "." the "."
\* is a thousands separator and goes; then "," becomes "."
MonetaryText(stripped) ==
    ReplaceChar(IF HasChar(stripped, ",") /\ HasChar(stripped, ".")
                THEN ReplaceChar(stripped, ".", <<>>)
                ELSE stripped,
                ",", <<".">>)

\* the end of _clean_monetary_value: num if num >= 0, else None
NonNegative(num) ==
    CASE num.kind = "ValueError" -> NULL
      [] num.kind = "nan" -> NULL
      [] num.kind = "inf" -> IF num.neg THEN NULL ELSE Some(num)
      [] num.kind = "finite" ->
           IF num.neg /\ (num.int > 0 \/ DigitsValue(num.frac) > 0)
           THEN NULL
           ELSE Some(num)

\* _clean_monetary_value on a text cell: the parsed float when it is >= 0,
\* None for a negative number, a NaN or an unparsable text.
CleanMonetaryValue(v) ==
    IF IsNull(v) THEN NULL
    ELSE NonNegative(ParseFloat(Lower(MonetaryText(Strip(Val(v))))))

\* _clean_monetary_value on a number (the branch num = float(value)); NaN
\* is caught by pd.isna
CleanMonetaryNumber(num) ==
    IF num.kind = "nan" THEN NULL ELSE NonNegative(num)

\* a float, as float() and the model's cells keep it
Float(kind, neg, int, frac) ==
    CASE kind = "finite" ->
            [kind |-> "finite", neg |-> neg, int |-> int, frac |-> frac]
      [] kind = "ValueError" -> [kind |-> "ValueError"]
      [] OTHER -> [kind |-> kind, neg |-> neg]

\* The monetary normalizer called on None, on a text or on a number
MoneyAlphabet == {"-", "1", "5", ".", ",", " "}

MoneyWords ==
    {<<"2", ".", "0", "2", "6", ",", "0", "0">>,
     <<"1", ",", "2", "3", "4", ".", "5", "6">>,
     <<"-", "1", ".", "5", "0", "0", ",", "5">>,
     <<"R", "$", "5">>, <<"i", "n", "f">>, <<"-", "i", "n", "f">>,
     <<"N", "a", "N">>, <<"-", "0", ",", "0">>}

MoneyNumbers ==
    {Float("finite", FALSE, 0, <<>>), Float("finite", TRUE, 0, <<>>),
     Float("finite", FALSE, 10, <<"5">>), Float("finite", TRUE, 5, <<>>),
     Float("finite", TRUE, 0, <<"0", "1">>),
     Float("inf", FALSE, 0, <<>>), Float("inf", TRUE, 0, <<>>),
     Float("nan", FALSE, 0, <<>>)}

MoneyValues ==
    {[type |-> "NoneType", text |-> <<>>, num |-> Float("nan", FALSE, 0, <<>>)]}
    \cup {[type |-> "str", text |-> s, num |-> Float("nan", FALSE, 0, <<>>)] :
             s \in SeqUpTo(MoneyAlphabet, MaxLen) \cup MoneyWords}
    \cup {[type |-> "float", text |-> <<>>, num |-> n] : n \in MoneyNumbers}

InitMoney ==
    /\ pc = "start"
    /\ value \in MoneyValues
    /\ returned = <<>>
    /\ NoCleaner
    /\ NoDirectory
    /\ NoPipeline

CallCleanMonetaryValue ==
    /\ pc = "start"
    /\ returned' =
          <<Return(CASE value.type = "NoneType" -> CleanMonetaryValue(NULL)
                     [] value.type = "str" ->
                            CleanMonetaryValue(Some(value.text))
                     [] value.type = "float" ->
                            CleanMonetaryNumber(value.num))>>
    /\ pc' = "done"
    /\ UNCHANGED <<value, cleanerVars, fs, pipelineVars>>

NextMoney == CallCleanMonetaryValue

SpecMoney == InitMoney /\ [][NextMoney]_vars

\* a float that is >= 0 (a zero of either sign, a positive number, +inf)
IsNonNegative(f) ==
    \/ f.kind = "inf" /\ ~f.neg
    \/ f.kind = "finite" /\ (~f.neg \/ (f.int = 0 /\ DigitsValue(f.frac) = 0))

\* the number the claim reads in a text: with both "." and ",", the "." are
\* thousands separators and the "," is the decimal separator; otherwise a
\* "," is a decimal separator
MoneyReading(text) ==
    LET s == Strip(text)
        grouped == HasChar(s, ",") /\ HasChar(s, ".")
        digits == SelectSeq(s, LAMBDA c : ~(grouped /\ c = "."))
    IN  ParseFloat(Lower([i \in 1..Len(digits) |->
                             IF digits[i] = "," THEN "." ELSE digits[i]]))

\* C12: the monetary normalizer never raises and returns null or a value
\* >= 0; a negative number, a NaN and an unparsable text give null; a text
\* with both "." and "," is read with "." as thousands separator and "," as
\* decimal separator.
C12_MonetaryValueNullOrNonNegative ==
    pc = "done" =>
        /\ ~returned[1].raised
        /\ IsNull(returned[1].v) \/ IsNonNegative(Val(returned[1].v))
        /\ value.type = "NoneType" => IsNull(returned[1].v)
        /\ value.type = "float" =>
               returned[1].v = IF IsNonNegative(value.num)
                               THEN Some(value.num) ELSE NULL
        /\ value.type = "str" =>
               returned[1].v = IF IsNonNegative(MoneyReading(value.text))
                               THEN Some(MoneyReading(value.text)) ELSE NULL

\* "2.026,00" gives 2026.00.
C12_Witness ==
    /\ pc = "done"
    /\ value.type = "str"
    /\ value.text = <<"2", ".", "0", "2", "6", ",", "0", "0">>
    /\ returned[1] = Return(Some(Float("finite", FALSE, 2026, <<"0", "0">>)))

\* pd.to_datetime(format='mixed', dayfirst=True, errors='coerce', utc=True) on
\* a text cell, as the ordinal of the day in 2024: an ISO date is read
\* year-month-day, a slashed date day first, anything else is NaT.
ToDatetime(v) ==
    IF IsNull(v) THEN NULL
    ELSE CASE Val(v) = "2024-01-02" -> Some(2)
           [] Val(v) = "2024-02-01" -> Some(32)
           [] Val(v) = "01/02/2024" -> Some(32)
           [] Val(v) = "02/01/2024" -> Some(2)
           [] Val(v) = "03/01/2024" -> Some(3)
           [] OTHER -> NULL

\* the value _clean_quantity returned, as a cell
QuantityCell(v) == Some(CleanQuantity(v).v)

(* Tables: a sequence of column names and a sequence of rows; a row is a    *)
(* function from the column names to cells.                                *)

Range(s) == {s[i] : i \in 1..Len(s)}

Table(columns, rows) == [columns |-> columns, rows |-> rows]

\* pd.DataFrame()
EmptyFrame == Table(<<>>, <<>>)

\* A cleaner that forgets the null-id filter.
DropEmptyIdsKeepsAll(rows, id_column) == rows

\* _drop_empty_ids: df.dropna(subset=[id_column])
RECURSIVE DropEmptyIds(_, _)
DropEmptyIds(rows, id_column) ==
    IF rows = <<>> THEN <<>>
    ELSE (IF NotNull(Head(rows)[id_column]) THEN <<Head(rows)>> ELSE <<>>)
         \o DropEmptyIds(Tail(rows), id_column)

\* df[column] = df[column].apply(_clean_state_code)
ApplyCleanStateCode(rows, column) ==
    [i \in 1..Len(rows) |-> [rows[i] EXCEPT ![column] = CleanStateCode(@)]]

\* df[column] = df[column].apply(_clean_string)
ApplyCleanString(rows, column) ==
    [i \in 1..Len(rows) |-> [rows[i] EXCEPT ![column] = CleanString(@)]]

\* df[column] = df[column].apply(_clean_phone)
ApplyCleanPhone(rows, column) ==
    [i \in 1..Len(rows) |-> [rows[i] EXCEPT ![column] = CleanPhone(@)]]

\* df[column] = df[column].apply(_clean_monetary_value)
ApplyCleanMonetaryValue(rows, column) ==
    [i \in 1..Len(rows) |->
        [rows[i] EXCEPT ![column] = CleanMonetaryValue(@)]]

\* df[column] = df[column].apply(_clean_quantity)
ApplyCleanQuantity(rows, column) ==
    [i \in 1..Len(rows) |-> [rows[i] EXCEPT ![column] = QuantityCell(@)]]

\* df[column] = pd.to_datetime(df[column], ...)
ApplyToDatetime(rows, column) ==
    [i \in 1..Len(rows) |-> [rows[i] EXCEPT ![column] = ToDatetime(@)]]

\* df[column] = cell, for a column the frame may not have yet
SetColumn(rows, column, cell) ==
    [i \in 1..Len(rows) |->
        [c \in DOMAIN rows[i] \cup {column} |->
            IF c = column THEN cell ELSE rows[i][c]]]

\* Order of two cells in a sorted column: nulls go last whatever the
\* direction (na_position='last').
CellBefore(x, y, ascending) ==
    IF IsNull(x) THEN FALSE
    ELSE IF IsNull(y) THEN TRUE
    ELSE IF ascending THEN Val(x) < Val(y) ELSE Val(x) > Val(y)

\* by is a sequence of [column, ascending]: lexicographic order of two rows
RECURSIVE RowBefore(_, _, _)
RowBefore(a, b, by) ==
    IF by = <<>> THEN FALSE
    ELSE LET k == Head(by)
         IN  IF CellBefore(a[k.column], b[k.column], k.ascending) THEN TRUE
             ELSE IF a[k.column] = b[k.column]
             THEN RowBefore(a, b, Tail(by))
             ELSE FALSE

\* r placed in a sorted sequence before the first row that comes after it
RECURSIVE InsertRow(_, _, _)
InsertRow(sorted, r, by) ==
    IF sorted = <<>> THEN <<r>>
    ELSE IF RowBefore(r, Head(sorted), by) THEN <<r>> \o sorted
    ELSE <<Head(sorted)>> \o InsertRow(Tail(sorted), r, by)

\* _sort_rows_by: df.sort_values(by, ascending).reset_index(drop=True). The
\* sort on several columns is stable: rows that tie keep their input order.
RECURSIVE SortRowsBy(_, _)
SortRowsBy(rows, by) ==
    IF rows = <<>> THEN <<>>
    ELSE InsertRow(SortRowsBy(SubSeq(rows, 1, Len(rows) - 1), by),
                   rows[Len(rows)], by)

SameKey(a, b, subset) == \A c \in subset : a[c] = b[c]

\* drop_duplicates(subset, keep='last')
RECURSIVE DropDuplicateRowsKeepLast(_, _)
DropDuplicateRowsKeepLast(rows, subset) ==
    IF rows = <<>> THEN <<>>
    ELSE LET rest == DropDuplicateRowsKeepLast(Tail(rows), subset)
         IN  IF \E i \in 1..Len(rest) : SameKey(rest[i], Head(rows), subset)
             THEN rest
             ELSE <<Head(rows)>> \o rest

\* _drop_duplicate_rows: df.drop_duplicates(subset), first occurrence kept
RECURSIVE DropDuplicateRows(_, _)
DropDuplicateRows(rows, subset) ==
    IF rows = <<>> THEN <<>>
    ELSE LET init == DropDuplicateRows(SubSeq(rows, 1, Len(rows) - 1), subset)
             last == rows[Len(rows)]
         IN  IF \E i \in 1..Len(init) : SameKey(init[i], last, subset)
             THEN init
             ELSE Append(init, last)

\* df.reindex(columns=column_order): the listed columns in the listed order,
\* a column the frame lacks filled with nulls
Reindex(rows, column_order) ==
    Table(column_order,
          [i \in 1..Len(rows) |->
              [c \in Range(column_order) |->
                  IF c \in DOMAIN rows[i] THEN rows[i][c] ELSE NULL]])

By(column, ascending) == [column |-> column, ascending |-> ascending]

ProvenanceColumns ==
    <<"_source_file_folder", "_source_file_name", "_source_file_ingest_date",
      "_source_file_modified_ts", "_processed_ts">>

------------------------------------------------------------------------------
(* Entity cleaners *)

\* _process_customers_table
ProcessCustomersTable(t) ==
    LET kept == DropEmptyIds(t.rows, "customer_id")
        state == ApplyCleanStateCode(kept, "state")
        city == ApplyCleanString(state, "city")
        created == ApplyToDatetime(city, "created_ts")
        phone == IF "phone" \notin Range(t.columns)
                 THEN SetColumn(created, "phone", NULL)
                 ELSE ApplyCleanPhone(created, "phone")
        sorted == SortRowsBy(phone, <<By("customer_id", TRUE),
                                      By("created_ts", FALSE)>>)
        unique == DropDuplicateRows(sorted, {"customer_id"})
    IN  Return(Reindex(unique,
            <<"customer_id", "state", "city", "created_ts", "phone">>
            \o ProvenanceColumns))

\* _process_products_table
ProcessProductsTable(t) ==
    LET kept == DropEmptyIds(t.rows, "product_id")
        category == ApplyCleanString(kept, "category")
        brand == ApplyCleanString(category, "brand")
        created == ApplyToDatetime(brand, "created_ts")
        sorted == SortRowsBy(created, <<By("product_id", TRUE),
                                        By("created_ts", FALSE)>>)
        unique == DropDuplicateRows(sorted, {"product_id"})
    IN  Return(Reindex(unique,
            <<"product_id", "category", "brand", "created_ts">>
            \o ProvenanceColumns))

\* _process_orders_table
ProcessOrdersTable(t) ==
    LET kept == DropEmptyIds(DropEmptyIds(t.rows, "order_id"), "customer_id")
        order_ts == ApplyToDatetime(kept, "order_ts")
        status == ApplyCleanString(order_ts, "status")
        payment == ApplyCleanString(status, "payment_method")
        total == ApplyCleanMonetaryValue(payment, "total_amount")
        currency == ApplyCleanString(total, "currency")
        channel == IF "sales_channel" \notin Range(t.columns)
                   THEN SetColumn(currency, "sales_channel", NULL)
                   ELSE ApplyCleanString(currency, "sales_channel")
        sorted == SortRowsBy(channel, <<By("order_id", TRUE),
                                        By("order_ts", FALSE),
                                        By("customer_id", TRUE)>>)
        unique == DropDuplicateRows(sorted, {"order_id"})
    IN  Return(Reindex(unique,
            <<"order_id", "customer_id", "order_ts", "status",
              "payment_method", "total_amount", "currency", "sales_channel">>
            \o ProvenanceColumns))

\* _process_order_items_table after the two dropna: the first exception of
\* _clean_quantity escapes
OrderItemsFrom(kept) ==
    IF \E i \in 1..Len(kept) : CleanQuantity(kept[i].quantity).raised
    THEN CleanQuantity(kept[CHOOSE i \in 1..Len(kept) :
             /\ CleanQuantity(kept[i].quantity).raised
             /\ \A j \in 1..(i - 1) :
                    ~CleanQuantity(kept[j].quantity).raised].quantity)
    ELSE Return(Reindex(
            DropDuplicateRows(
                SortRowsBy(
                    ApplyCleanMonetaryValue(
                        ApplyCleanMonetaryValue(
                            ApplyCleanQuantity(kept, "quantity"),
                            "unit_price"),
                        "discount_amount"),
                    <<By("order_id", TRUE), By("product_id", TRUE)>>),
                {"order_id", "product_id"}),
            <<"order_id", "product_id", "quantity", "unit_price",
              "discount_amount">> \o ProvenanceColumns))

\* _process_order_items_table
ProcessOrderItemsTable(t) ==
    OrderItemsFrom(DropEmptyIds(DropEmptyIds(t.rows, "order_id"),
                                "product_id"))

NotShippedStatus == {<<"l", "a", "b", "e", "l", "_", "c", "r", "e", "a", "t", "e", "d">>}

NotDeliveredStatus ==
    NotShippedStatus
    \cup {<<"i", "n", "_", "t", "r", "a", "n", "s", "i", "t">>,
          <<"l", "o", "s", "t">>}

StatusIn(r, statuses) ==
    NotNull(r.delivery_status) /\ Val(r.delivery_status) \in statuses

\* Shipment dates parsed as the raw row carries them, whatever the status.
CleanShipmentDatesIgnoresStatus(rows) ==
    ApplyToDatetime(ApplyToDatetime(rows, "shipped_ts"), "delivered_ts")

\* _clean_shipment_dates
CleanShipmentDates(rows) ==
    LET not_shipped ==
            [i \in 1..Len(rows) |->
                IF StatusIn(rows[i], NotShippedStatus)
                THEN [rows[i] EXCEPT !.shipped_ts = NULL, !.delivered_ts = NULL]
                ELSE rows[i]]
        not_delivered ==
            [i \in 1..Len(rows) |->
                IF StatusIn(not_shipped[i], NotDeliveredStatus)
                THEN [not_shipped[i] EXCEPT !.delivered_ts = NULL]
                ELSE not_shipped[i]]
    IN  ApplyToDatetime(ApplyToDatetime(not_delivered, "shipped_ts"),
                        "delivered_ts")

\* mask_invalid of _delivery_date_validation
DatesInvalid(r) ==
    /\ NotNull(r.delivered_ts)
    /\ NotNull(r.shipped_ts)
    /\ Val(r.shipped_ts) > Val(r.delivered_ts)

\* The version of the cleaner without the consistency pass.
DeliveryDateValidationSkipped(t) == t

\* _delivery_date_validation: the frame it returns
DeliveryDateValidation(t) ==
    IF "delivered_ts" \notin Range(t.columns) \/ "shipped_ts" \notin Range(t.columns)
    THEN t
    ELSE Table(t.columns,
               [i \in 1..Len(t.rows) |->
                   IF DatesInvalid(t.rows[i])
                   THEN [t.rows[i] EXCEPT !.shipped_ts = NULL,
                                          !.delivered_ts = NULL]
                   ELSE t.rows[i]])

\* _delivery_date_validation: the number of messages it prints
DeliveryDateWarnings(t) ==
    IF /\ "delivered_ts" \in Range(t.columns)
       /\ "shipped_ts" \in Range(t.columns)
       /\ \E i \in 1..Len(t.rows) : DatesInvalid(t.rows[i])
    THEN 1 ELSE 0

\* _process_shipments_table up to the consistency pass
ShipmentsBeforeValidation(t) ==
    LET kept == DropEmptyIds(t.rows, "order_id")
        carrier == ApplyCleanString(kept, "carrier")
        cost == ApplyCleanMonetaryValue(carrier, "shipping_cost")
        status == ApplyCleanString(cost, "delivery_status")
        dates == CleanShipmentDates(status)
        sorted == SortRowsBy(dates, <<By("order_id", TRUE),
                                      By("shipped_ts", FALSE),
                                      By("delivered_ts", FALSE)>>)
        unique == DropDuplicateRows(sorted, {"order_id"})
    IN  Reindex(unique,
            <<"order_id", "carrier", "shipping_cost", "shipped_ts",
              "delivered_ts", "delivery_status">> \o ProvenanceColumns)

\* _process_shipments_table
ProcessShipmentsTable(t) ==
    Return(DeliveryDateValidation(ShipmentsBeforeValidation(t)))

------------------------------------------------------------------------------
(* Table dispatcher.  A file name is a sequence of tokens                   *)
(* (<<"orders", "_2024", "_bronze", ".csv">> is orders_2024_bronze.csv).   *)
(* Every pattern looked for is a run of whole tokens and occurs in a name  *)
(* only as such a run, so `pattern in name` is: pattern is a contiguous    *)
(* run of the name's tokens.                                               *)

\* str.lower() on one token of a file name
LowerToken(w) ==
    CASE w = "Orders" -> "orders"
      [] w = "CUSTOMERS" -> "customers"
      [] w = "ORDER_ITEMS" -> "order_items"
      [] w = "Shipments" -> "shipments"
      [] OTHER -> w

LowerName(name) == [i \in 1..Len(name) |-> LowerToken(name[i])]

\* pattern in name
Contains(name, pattern) ==
    \E i \in 1..(Len(name) - Len(pattern) + 1) :
        SubSeq(name, i, i + Len(pattern) - 1) = pattern

\* A dispatcher that looks for "orders" before "order_items".
AddressProcessingFunctionOrdersFirst(name) ==
    LET lowered == LowerName(name)
    IN  IF Contains(lowered, <<"orders">>) THEN "orders"
        ELSE IF Contains(lowered, <<"order_items">>) THEN "order_items"
        ELSE IF Contains(lowered, <<"customers">>) THEN "customers"
        ELSE IF Contains(lowered, <<"products">>) THEN "products"
        ELSE IF Contains(lowered, <<"shipments">>) THEN "shipments"
        ELSE "ValueError"

\* _address_processing_function: the entity whose cleaner is returned, or
\* "ValueError" when it raises
AddressProcessingFunction(name) ==
    LET lowered == LowerName(name)
    IN  IF Contains(lowered, <<"order_items">>) THEN "order_items"
        ELSE IF Contains(lowered, <<"orders">>) THEN "orders"
        ELSE IF Contains(lowered, <<"customers">>) THEN "customers"
        ELSE IF Contains(lowered, <<"products">>) THEN "products"
        ELSE IF Contains(lowered, <<"shipments">>) THEN "shipments"
        ELSE "ValueError"

\* the cleaner _address_processing_function selected, applied to a frame
ProcessTable(entity, t) ==
    CASE entity = "order_items" -> ProcessOrderItemsTable(t)
      [] entity = "orders" -> ProcessOrdersTable(t)
      [] entity = "customers" -> ProcessCustomersTable(t)
      [] entity = "products" -> ProcessProductsTable(t)
      [] entity = "shipments" -> ProcessShipmentsTable(t)

-------------------------------------------------------------------------------
(* The dispatcher called on file names made of several tokens *)

MaxTokens == 3

NameTokens ==
    {"order_items", "orders", "customers", "products", "shipments",
     "Orders", "CUSTOMERS", "ORDER_ITEMS", "Shipments", "order", "_", "misc"}

DispatcherNames ==
    {s \o <<"_bronze", ".csv">> : s \in SeqUpTo(NameTokens, MaxTokens)}

InitDispatcher ==
    /\ pc = "start"
    /\ value = Unused
    /\ returned = <<>>
    /\ file_name \in DispatcherNames
    /\ df = Unused
    /\ cleaned = Unused
    /\ printed = 0
    /\ NoDirectory
    /\ NoPipeline

\* _address_processing_function(file_name) returns a cleaner
DispatcherReturns ==
    /\ pc = "start"
    /\ AddressProcessingFunction(file_name) # "ValueError"
    /\ returned' = <<Return(AddressProcessingFunction(file_name))>>
    /\ pc' = "done"
    /\ UNCHANGED <<value, cleanerVars, fs, pipelineVars>>

\* _address_processing_function(file_name) raises
DispatcherRaises ==
    /\ pc = "start"
    /\ AddressProcessingFunction(file_name) = "ValueError"
    /\ returned' = <<Raise("ValueError")>>
    /\ pc' = "done"
    /\ UNCHANGED <<value, cleanerVars, fs, pipelineVars>>

NextDispatcher == DispatcherReturns \/ DispatcherRaises

SpecDispatcher == InitDispatcher /\ [][NextDispatcher]_vars

\* the keywords in the order the claim gives them
Keywords == <<"order_items", "orders", "customers", "products", "shipments">>

\* the keywords that occur in the lowercased file name
Matching ==
    {k \in 1..5 : \E i \in 1..Len(file_name) :
                      LowerToken(file_name[i]) = Keywords[k]}

\* C17: the dispatcher returns the cleaner of the first keyword, in the order
\* order_items, orders, customers, products, shipments, that occurs in the
\* lowercased name; a name with order_items gets the order-items cleaner
\* whatever else it contains, and a name with no keyword raises ValueError.
C17_FirstKeywordSelects ==
    pc = "done" =>
        /\ Matching = {} => returned[1] = Raise("ValueError")
        /\ Matching # {} =>
               /\ ~returned[1].raised
               /\ \E k \in Matching :
                      /\ returned[1].v = Keywords[k]
                      /\ \A j \in Matching : k <= j
        /\ 1 \in Matching => returned[1] = Return("order_items")

\* CUSTOMERS_Orders_ORDER_ITEMS_bronze.csv holds three keywords, the
\* first-ranked one last, and gets the order-items cleaner.
C17_Witness ==
    /\ pc = "done"
    /\ file_name = <<"CUSTOMERS", "Orders", "ORDER_ITEMS", "_bronze", ".csv">>
    /\ returned[1] = Return("order_items")

\* order_misc_bronze.csv holds no keyword and the dispatcher raises.
C17_WitnessUnrecognized ==
    /\ pc = "done"
    /\ file_name = <<"order", "_", "misc", "_bronze", ".csv">>
    /\ returned[1] = Raise("ValueError")

------------------------------------------------------------------------------
(* Bronze tables given to the cleaners: every cell a text or null *)

Ids == {NULL, Some(1), Some(2)}

Text_sp == <<"s", "p">>
Text_xx == <<"x", "x">>
Text_Sao == <<"S", "a~", "o">>
Text_Phone == <<"(", "1", "1", ")", " ", "4", "0", "0", "2", "-", "8", "9", "2", "2">>
Text_Delivered == <<" ", "D", "e", "l", "i", "v", "e", "r", "e", "d">>
Text_label_created == <<"l", "a", "b", "e", "l", "_", "c", "r", "e", "a", "t", "e", "d">>
Text_IN_TRANSIT == <<"I", "N", "_", "T", "R", "A", "N", "S", "I", "T">>
Text_Lost == <<"L", "o", "s", "t", " ">>
Text_two == <<"t", "w", "o">>
Text_3p7 == <<"3", ".", "7">>
Text_2026 == <<"2", ".", "0", "2", "6", ",", "0", "0">>
Text_m5 == <<"-", "5">>
Text_m3 == <<"-", "3">>
Text_10p5 == <<"1", "0", ".", "5">>
Text_pix == <<"P", "i", "x">>
Text_brl == <<"B", "R", "L">>
Text_web == <<"w", "e", "b">>
Text_3 == <<"3">>
Text_26p334 == <<"2", "6", ".", "3", "3", "4">>
Text_10 == <<"1", "0">>

\* The provenance cells process_bronze_data put on every row of one file.
BronzeProvenance ==
    [c \in Range(ProvenanceColumns) |->
        CASE c = "_source_file_folder" -> Some("input/ingest_date=2024-01-01")
          [] c = "_source_file_name" -> Some("file.csv")
          [] c = "_source_file_ingest_date" -> Some("2024-01-01")
          [] c = "_source_file_modified_ts" -> Some(1)
          [] c = "_processed_ts" -> Some(1)]

\* a row: its business cells and the provenance cells
RowOf(cells, provenance) ==
    [c \in DOMAIN cells \cup DOMAIN provenance |->
        IF c \in DOMAIN cells THEN cells[c] ELSE provenance[c]]

\* a row without one column
Without(r, column) == [c \in DOMAIN r \ {column} |-> r[c]]

CustomerRows ==
    {RowOf([customer_id |-> id, created_ts |-> ts, state |-> p.state,
            city |-> p.city, phone |-> p.phone], BronzeProvenance) :
        id \in Ids,
        ts \in {Some("2024-01-02"), Some("01/02/2024"), Some("n/a")},
        p \in {[state |-> Some(Text_sp), city |-> Some(Text_Sao),
                phone |-> Some(Text_Phone)],
               [state |-> Some(Text_xx), city |-> NULL,
                phone |-> Some(InvalidPhone)]}}

ProductRows ==
    {RowOf([product_id |-> id, created_ts |-> ts, category |-> Some(Text_Sao),
            brand |-> Some(Text_xx)], BronzeProvenance) :
        id \in Ids, ts \in {NULL, Some("2024-01-02"), Some("01/02/2024")}}

OrderRows ==
    {RowOf([order_id |-> id, customer_id |-> cid, order_ts |-> ts,
            status |-> Some(Text_Delivered), payment_method |-> Some(Text_pix),
            total_amount |-> Some(Text_2026), currency |-> Some(Text_brl),
            sales_channel |-> Some(Text_web)], BronzeProvenance) :
        id \in Ids, cid \in Ids,
        ts \in {Some("2024-01-02"), Some("01/02/2024")}}

OrderItemRows ==
    {RowOf([order_id |-> id, product_id |-> pid, quantity |-> q.quantity,
            unit_price |-> Some(Text_10p5), discount_amount |-> q.discount],
           BronzeProvenance) :
        id \in Ids, pid \in Ids,
        q \in {[quantity |-> Some(Text_two), discount |-> NULL],
               [quantity |-> Some(Text_3p7), discount |-> Some(Text_m5)],
               [quantity |-> Some(Text_m3), discount |-> NULL]}}

\* status, shipped_ts and delivered_ts of the raw shipment rows
ShipmentCases ==
    {[status |-> Text_Delivered, shipped |-> Some("2024-01-02"),
      delivered |-> Some("01/02/2024")],
     [status |-> Text_Delivered, shipped |-> Some("01/02/2024"),
      delivered |-> Some("2024-01-02")],
     [status |-> Text_Delivered, shipped |-> Some("01/02/2024"),
      delivered |-> Some("n/a")],
     [status |-> Text_Delivered, shipped |-> NULL,
      delivered |-> Some("2024-01-02")],
     [status |-> Text_label_created, shipped |-> Some("01/02/2024"),
      delivered |-> Some("2024-01-02")],
     [status |-> Text_IN_TRANSIT, shipped |-> Some("01/02/2024"),
      delivered |-> Some("2024-01-02")],
     [status |-> Text_Lost, shipped |-> Some("2024-01-02"),
      delivered |-> Some("2024-01-02")]}

ShipmentRows ==
    {RowOf([order_id |-> id, carrier |-> Some(Text_Sao),
            shipping_cost |-> Some(Text_10p5), shipped_ts |-> c.shipped,
            delivered_ts |-> c.delivered, delivery_status |-> Some(c.status)],
           BronzeProvenance) :
        id \in Ids, c \in ShipmentCases}

\* the columns of a bronze file, from its rows' cells
ColumnsOf(business) == business \o ProvenanceColumns

\* the table without an optional column (phone, sales_channel)
DropColumn(t, column) ==
    Table(SelectSeq(t.columns, LAMBDA c : c # column),
          [i \in 1..Len(t.rows) |-> Without(t.rows[i], column)])

BronzeTables(entity) ==
    CASE entity = "customers" ->
            LET full == {Table(ColumnsOf(<<"customer_id", "state", "city",
                                           "created_ts", "phone">>), rows) :
                            rows \in SeqUpTo(CustomerRows, MaxRows)}
            IN  full \cup {DropColumn(t, "phone") : t \in full}
      [] entity = "products" ->
            {Table(ColumnsOf(<<"product_id", "category", "brand",
                               "created_ts">>), rows) :
                rows \in SeqUpTo(ProductRows, MaxRows)}
      [] entity = "orders" ->
            LET full == {Table(ColumnsOf(<<"order_id", "customer_id",
                                "order_ts", "status", "payment_method",
                                "total_amount", "currency", "sales_channel">>),
                               rows) :
                            rows \in SeqUpTo(OrderRows, MaxRows)}
            IN  full \cup {DropColumn(t, "sales_channel") : t \in full}
      [] entity = "order_items" ->
            {Table(ColumnsOf(<<"order_id", "product_id", "quantity",
                               "unit_price", "discount_amount">>), rows) :
                rows \in SeqUpTo(OrderItemRows, MaxRows)}
      [] entity = "shipments" ->
            {Table(ColumnsOf(<<"order_id", "carrier", "shipping_cost",
                               "shipped_ts", "delivered_ts",
                               "delivery_status">>), rows) :
                rows \in SeqUpTo(ShipmentRows, MaxRows)}
      [] entity = "ValueError" -> {EmptyFrame}

BronzeFileNames ==
    {<<"customers", "_bronze", ".csv">>,
     <<"products", "_bronze", ".csv">>,
     <<"Orders", "_2024", "_bronze", ".csv">>,
     <<"order_items", "_bronze", ".csv">>,
     <<"shipments", "_bronze", ".csv">>,
     <<"misc", "_bronze", ".csv">>}

------------------------------------------------------------------------------
(* The dispatcher and the five cleaners applied to one bronze table *)

InitCleaners ==
    /\ pc = "start"
    /\ NoPrimitive
    /\ file_name \in BronzeFileNames
    /\ df \in BronzeTables(AddressProcessingFunction(file_name))
    /\ cleaned = Unused
    /\ printed = 0
    /\ NoDirectory
    /\ NoPipeline

Selected(entity) ==
    pc = "start" /\ AddressProcessingFunction(file_name) = entity

CleanCustomers ==
    /\ Selected("customers")
    /\ cleaned' = ProcessCustomersTable(df)
    /\ pc' = "done"
    /\ UNCHANGED <<primitiveVars, file_name, df, printed, fs, pipelineVars>>

CleanProducts ==
    /\ Selected("products")
    /\ cleaned' = ProcessProductsTable(df)
    /\ pc' = "done"
    /\ UNCHANGED <<primitiveVars, file_name, df, printed, fs, pipelineVars>>

CleanOrders ==
    /\ Selected("orders")
    /\ cleaned' = ProcessOrdersTable(df)
    /\ pc' = "done"
    /\ UNCHANGED <<primitiveVars, file_name, df, printed, fs, pipelineVars>>

CleanOrderItems ==
    /\ Selected("order_items")
    /\ cleaned' = ProcessOrderItemsTable(df)
    /\ pc' = "done"
    /\ UNCHANGED <<primitiveVars, file_name, df, printed, fs, pipelineVars>>

CleanShipments ==
    /\ Selected("shipments")
    /\ cleaned' = ProcessShipmentsTable(df)
    /\ printed' = printed + DeliveryDateWarnings(ShipmentsBeforeValidation(df))
    /\ pc' = "done"
    /\ UNCHANGED <<primitiveVars, file_name, df, fs, pipelineVars>>

\* no cleaner for the name: _address_processing_function raises
Unrecognized ==
    /\ Selected("ValueError")
    /\ cleaned' = Raise("ValueError")
    /\ pc' = "done"
    /\ UNCHANGED <<primitiveVars, file_name, df, printed, fs, pipelineVars>>

NextCleaners ==
    \/ CleanCustomers
    \/ CleanProducts
    \/ CleanOrders
    \/ CleanOrderItems
    \/ CleanShipments
    \/ Unrecognized

SpecCleaners == InitCleaners /\ [][NextCleaners]_vars

Entity == AddressProcessingFunction(file_name)

Done(entity) == pc = "done" /\ Entity = entity /\ ~cleaned.raised

\* C1: no row of the cleaned shipments has shipped_ts and delivered_ts both
\* present with shipped_ts > delivered_ts, and a surviving row whose parsed
\* shipped_ts is later than its parsed delivered_ts has both of them null.
C1_ShipmentDatesConsistent ==
    Done("shipments") =>
        LET survivors == ShipmentsBeforeValidation(df).rows
            out == cleaned.v.rows
        IN  /\ \A i \in 1..Len(out) :
                   ~(/\ NotNull(out[i].shipped_ts)
                     /\ NotNull(out[i].delivered_ts)
                     /\ Val(out[i].shipped_ts) > Val(out[i].delivered_ts))
            /\ Len(out) = Len(survivors)
            /\ \A i \in 1..Len(survivors) :
                   (/\ NotNull(survivors[i].shipped_ts)
                    /\ NotNull(survivors[i].delivered_ts)
                    /\ Val(survivors[i].shipped_ts)
                           > Val(survivors[i].delivered_ts))
                   => /\ out[i].order_id = survivors[i].order_id
                      /\ IsNull(out[i].shipped_ts)
                      /\ IsNull(out[i].delivered_ts)

\* a raw shipment row shipped on 1 February and delivered on 2 January
ShippedAfterDelivered(r) ==
    /\ r.shipped_ts = Some("01/02/2024")
    /\ r.delivered_ts = Some("2024-01-02")
    /\ r.delivery_status = Some(Text_Delivered)

C1_Witness ==
    /\ Done("shipments")
    /\ Len(df.rows) = 2
    /\ ShippedAfterDelivered(df.rows[1])
    /\ df.rows[1].order_id = Some(1)
    /\ df.rows[2].order_id = Some(2)
    /\ df.rows[2].shipped_ts = Some("2024-01-02")
    /\ df.rows[2].delivered_ts = Some("01/02/2024")
    /\ df.rows[2].delivery_status = Some(Text_Delivered)
    /\ Len(cleaned.v.rows) = 2
    /\ IsNull(cleaned.v.rows[1].shipped_ts)
    /\ IsNull(cleaned.v.rows[1].delivered_ts)
    /\ cleaned.v.rows[2].shipped_ts = Some(2)
    /\ cleaned.v.rows[2].delivered_ts = Some(32)
    /\ printed = 1

\* C2: for every non-null customer_id of the input exactly one row with that
\* id survives the customers cleaner, and it is the input row with the latest
\* created_ts among the rows of that id, wherever it stands in the input.
C2_LatestCustomerWins ==
    Done("customers") =>
        LET out == cleaned.v.rows
            in == df.rows
        IN  \A i \in 1..Len(in) :
                NotNull(in[i].customer_id) =>
                LET same == {s \in 1..Len(in) :
                                in[s].customer_id = in[i].customer_id}
                    mine == {j \in 1..Len(out) :
                                out[j].customer_id = in[i].customer_id}
                IN  /\ Cardinality(mine) = 1
                    /\ \A j \in mine :
                        /\ \A s \in same :
                              NotNull(ToDatetime(in[s].created_ts)) =>
                                  /\ NotNull(out[j].created_ts)
                                  /\ Val(out[j].created_ts)
                                        >= Val(ToDatetime(in[s].created_ts))
                        /\ \E s \in same :
                              /\ out[j].created_ts = ToDatetime(in[s].created_ts)
                              /\ out[j].city = CleanString(in[s].city)
                              /\ out[j].state = CleanStateCode(in[s].state)

\* The later row (1 February) comes second in the input and is the survivor.
C2_Witness ==
    /\ Done("customers")
    /\ Len(df.rows) = 2
    /\ df.rows[1].customer_id = Some(1)
    /\ df.rows[2].customer_id = Some(1)
    /\ df.rows[1].created_ts = Some("2024-01-02")
    /\ df.rows[1].city = Some(Text_Sao)
    /\ df.rows[2].created_ts = Some("01/02/2024")
    /\ df.rows[2].city = NULL
    /\ Len(cleaned.v.rows) = 1
    /\ cleaned.v.rows[1].created_ts = Some(32)
    /\ cleaned.v.rows[1].city = NULL

\* the key of each entity's silver table
KeyColumns(entity) ==
    CASE entity = "customers" -> {"customer_id"}
      [] entity = "products" -> {"product_id"}
      [] entity = "orders" -> {"order_id"}
      [] entity = "order_items" -> {"order_id", "product_id"}
      [] entity = "shipments" -> {"order_id"}

\* C3: the output of each of the five cleaners has at most one row per key
\* and no row with a null key component; the orders output has no row with a
\* null customer_id.
C3_OneRowPerKey ==
    (pc = "done" /\ ~cleaned.raised) =>
        LET out == cleaned.v.rows
            key == KeyColumns(Entity)
        IN  /\ \A i, j \in 1..Len(out) :
                   SameKey(out[i], out[j], key) => i = j
            /\ \A i \in 1..Len(out) : \A c \in key : NotNull(out[i][c])
            /\ Entity = "orders" =>
                   \A i \in 1..Len(out) : NotNull(out[i].customer_id)

\* Two order items of the same (order_id, product_id): one row comes out.
C3_Witness ==
    /\ Done("order_items")
    /\ Len(df.rows) = 2
    /\ df.rows[1].order_id = Some(2)
    /\ df.rows[1].product_id = Some(1)
    /\ df.rows[2].order_id = Some(2)
    /\ df.rows[2].product_id = Some(1)
    /\ df.rows[1].quantity # df.rows[2].quantity
    /\ Len(cleaned.v.rows) = 1
    /\ cleaned.v.rows[1].order_id = Some(2)

\* C11: every row of the cleaned order-items table has a quantity that is a
\* non-negative integer, whatever the raw quantity text was ("-3" included).
C11_QuantityNonNegative ==
    Done("order_items") =>
        \A i \in 1..Len(cleaned.v.rows) :
            /\ NotNull(cleaned.v.rows[i].quantity)
            /\ Val(cleaned.v.rows[i].quantity) >= 0

\* C16: in the cleaned shipments table a row with delivery_status
\* label_created has shipped_ts and delivered_ts null, and a row with
\* delivery_status label_created, in_transit or lost has delivered_ts null.
C16_StatusNullsTimestamps ==
    Done("shipments") =>
        \A i \in 1..Len(cleaned.v.rows) :
            LET r == cleaned.v.rows[i]
            IN  /\ r.delivery_status = Some(Text_label_created) =>
                       IsNull(r.shipped_ts) /\ IsNull(r.delivered_ts)
                /\ r.delivery_status
                       \in {Some(Text_label_created),
                            Some(<<"i", "n", "_", "t", "r", "a", "n", "s", "i", "t">>),
                            Some(<<"l", "o", "s", "t">>)} =>
                       IsNull(r.delivered_ts)

\* Two raw rows that carry both timestamps, one label_created and one lost:
\* the first is cleaned to no timestamp, the second keeps shipped_ts only.
C16_Witness ==
    /\ Done("shipments")
    /\ Len(df.rows) = 2
    /\ \A i \in 1..2 : NotNull(df.rows[i].shipped_ts)
                       /\ NotNull(df.rows[i].delivered_ts)
    /\ Len(cleaned.v.rows) = 2
    /\ \E i, j \in 1..2 :
          /\ cleaned.v.rows[i].delivery_status = Some(Text_label_created)
          /\ IsNull(cleaned.v.rows[i].shipped_ts)
          /\ IsNull(cleaned.v.rows[i].delivered_ts)
          /\ cleaned.v.rows[j].delivery_status = Some(<<"l", "o", "s", "t">>)
          /\ NotNull(cleaned.v.rows[j].shipped_ts)
          /\ IsNull(cleaned.v.rows[j].delivered_ts)

------------------------------------------------------------------------------
(* clean_directory.  A path is a text over the symbols "/", "..", "work",   *)
(* "output", "2" and "x" (so "output" followed by "2" is the name output2). *)
(* The process runs in /work; the output root is /work/output.  A node of   *)
(* the file system is the sequence of the names that lead to it from "/".   *)

StartsWith(s, prefix) ==
    Len(s) >= Len(prefix) /\ SubSeq(s, 1, Len(prefix)) = prefix

\* str.split('/')
RECURSIVE Split(_)
Split(s) ==
    IF ~HasChar(s, "/") THEN <<s>>
    ELSE LET i == CHOOSE k \in 1..Len(s) :
                      s[k] = "/" /\ \A j \in 1..(k - 1) : s[j] # "/"
         IN  <<SubSeq(s, 1, i - 1)>> \o Split(SubSeq(s, i + 1, Len(s)))

\* '/'.join(comps)
RECURSIVE Join(_)
Join(comps) ==
    IF comps = <<>> THEN <<>>
    ELSE IF Len(comps) = 1 THEN comps[1]
    ELSE comps[1] \o <<"/">> \o Join(Tail(comps))

\* the loop of posixpath.normpath over the components
RECURSIVE NormComps(_, _, _)
NormComps(comps, new_comps, initial_slashes) ==
    IF comps = <<>> THEN new_comps
    ELSE LET comp == Head(comps)
             n == Len(new_comps)
         IN  IF comp \in {<<>>, <<".">>}
             THEN NormComps(Tail(comps), new_comps, initial_slashes)
             ELSE IF \/ comp # <<"..">>
                     \/ (initial_slashes = 0 /\ n = 0)
                     \/ (n > 0 /\ new_comps[n] = <<"..">>)
             THEN NormComps(Tail(comps), Append(new_comps, comp), initial_slashes)
             ELSE IF n > 0
             THEN NormComps(Tail(comps), SubSeq(new_comps, 1, n - 1),
                            initial_slashes)
             ELSE NormComps(Tail(comps), new_comps, initial_slashes)

\* posixpath.normpath
NormPath(path) ==
    IF path = <<>> THEN <<".">>
    ELSE LET initial_slashes ==
                 IF ~StartsWith(path, <<"/">>) THEN 0
                 ELSE IF StartsWith(path, <<"/", "/">>)
                         /\ ~StartsWith(path, <<"/", "/", "/">>)
                 THEN 2 ELSE 1
             joined == Join(NormComps(Split(path), <<>>, initial_slashes))
             result == [i \in 1..initial_slashes |-> "/"] \o joined
         IN  IF result = <<>> THEN <<".">> ELSE result

\* os.getcwd()
Cwd == <<"/", "work">>

\* os.path.join(a, b)
PathJoin(a, b) ==
    IF StartsWith(b, <<"/">>) THEN b
    ELSE IF a = <<>> \/ a[Len(a)] = "/" THEN a \o b
    ELSE a \o <<"/">> \o b

\* os.path.abspath
AbsPath(path) ==
    NormPath(IF StartsWith(path, <<"/">>) THEN path ELSE PathJoin(Cwd, path))

\* output_root of clean_directory
OutputRoot == AbsPath(PathJoin(Cwd, <<"output">>))

\* A guard that compares the texts without the separator.
IsUnderOutputNoSep(directory_path) ==
    LET target_path == AbsPath(directory_path)
    IN  target_path = OutputRoot \/ StartsWith(target_path, OutputRoot)

\* the guard of clean_directory: the target is the output root or below it
IsUnderOutput(directory_path) ==
    LET target_path == AbsPath(directory_path)
    IN  \/ target_path = OutputRoot
        \/ StartsWith(target_path, OutputRoot \o <<"/">>)

IsPrefixNode(a, b) == Len(a) <= Len(b) /\ SubSeq(b, 1, Len(a)) = a

Nodes(f) == f.dirs \cup f.files

\* The kernel's walk along a path from node `at`: ".." goes to the parent, a
\* name to the child of that name.  With create, a missing child is made
\* a directory (os.makedirs).  err tells that the walk failed; f is the file
\* system after it.
RECURSIVE Walk(_, _, _, _)
Walk(f, at, comps, create) ==
    IF comps = <<>> THEN [err |-> FALSE, at |-> at, f |-> f]
    ELSE LET comp == Head(comps)
             child == Append(at, comp)
         IN  IF comp \in {<<>>, <<".">>} THEN Walk(f, at, Tail(comps), create)
             ELSE IF at \in f.files THEN [err |-> TRUE, at |-> at, f |-> f]
             ELSE IF comp = <<"..">>
             THEN Walk(f, IF at = <<>> THEN at ELSE SubSeq(at, 1, Len(at) - 1),
                       Tail(comps), create)
             ELSE IF child \in Nodes(f) THEN Walk(f, child, Tail(comps), create)
             ELSE IF create
             THEN Walk([f EXCEPT !.dirs = @ \cup {child}], child, Tail(comps),
                       create)
             ELSE [err |-> TRUE, at |-> at, f |-> f]

\* the node the walk starts from: "/" for an absolute path, the cwd otherwise
StartNode(path) == IF StartsWith(path, <<"/">>) THEN <<>> ELSE <<<<"work">>>>

Resolve(f, path) == Walk(f, StartNode(path), Split(path), FALSE)

\* os.path.exists
Exists(f, path) == ~Resolve(f, path).err

\* os.makedirs(path, exist_ok=True)
MakeDirs(f, path) == Walk(f, StartNode(path), Split(path), TRUE)

\* the file system without the nodes strictly below node d
WithoutChildren(f, d) ==
    [dirs |-> {n \in f.dirs : ~(IsPrefixNode(d, n) /\ n # d)},
     files |-> {n \in f.files : ~(IsPrefixNode(d, n) /\ n # d)}]

\* clean_directory: the outcome of the call and the file system it leaves
CleanDirectory(f, directory_path) ==
    IF ~IsUnderOutput(directory_path)
    THEN [outcome |-> Raise("ValueError"), f |-> f]
    ELSE IF ~Exists(f, directory_path)
    THEN LET made == MakeDirs(f, directory_path)
         IN  [outcome |-> IF made.err THEN Raise("OSError") ELSE Return(NULL),
              f |-> made.f]
    ELSE LET d == Resolve(f, directory_path).at
             emptied == WithoutChildren(f, d)
             removed == [emptied EXCEPT !.dirs = @ \ {d}]
             made == MakeDirs(removed, directory_path)
         IN  IF d \in f.files
             THEN [outcome |-> Raise("NotADirectoryError"), f |-> f]
             ELSE IF ~Exists(emptied, directory_path)
             THEN [outcome |-> Raise("OSError"), f |-> emptied]
             ELSE [outcome |-> IF made.err THEN Raise("OSError")
                               ELSE Return(NULL),
                   f |-> made.f]

PathSymbols == {"/", "..", "work", "output", "2", "x"}

DirectoryPaths == SeqUpTo(PathSymbols, MaxPathLen)

Node_work == <<<<"work">>>>
Node_output == <<<<"work">>, <<"output">>>>
Node_output2 == <<<<"work">>, <<"output", "2">>>>

\* File systems the call may find: /work, and any of output/ holding the
\* file x, output2/ holding a file x, and a file /work/x.
FileSystems ==
    {[dirs |-> {<<>>, Node_work}
               \cup (IF a THEN {Node_output} ELSE {})
               \cup (IF b THEN {Node_output2} ELSE {}),
      files |-> (IF a THEN {Append(Node_output, <<"x">>)} ELSE {})
                \cup (IF b THEN {Append(Node_output2, <<"x">>)} ELSE {})
                \cup (IF c THEN {Append(Node_work, <<"x">>)} ELSE {})] :
        a \in BOOLEAN, b \in BOOLEAN, c \in BOOLEAN}

InitDirectory ==
    /\ pc = "start"
    /\ value \in DirectoryPaths
    /\ returned = <<>>
    /\ NoCleaner
    /\ fs \in FileSystems
    /\ NoPipeline

CallCleanDirectory ==
    /\ pc = "start"
    /\ returned' = <<CleanDirectory(fs, value).outcome>>
    /\ fs' = CleanDirectory(fs, value).f
    /\ pc' = "done"
    /\ UNCHANGED <<value, cleanerVars, pipelineVars>>

NextDirectory == CallCleanDirectory

SpecDirectory == InitDirectory /\ [][NextDirectory]_vars

\* the node a path names once "." and ".." are resolved on the text
TargetNode(path) ==
    LET comps == Split(AbsPath(path))
    IN  SelectSeq(comps, LAMBDA c : c # <<>>)

UnderOutputRoot(node) == IsPrefixNode(Node_output, node)

\* C8: clean_directory raises and deletes or creates nothing whenever the
\* target is not the output root or a path inside it, and no call removes a
\* node outside the output root.
C8_CleanDirectoryGuard ==
    [][pc = "start" =>
          /\ ~UnderOutputRoot(TargetNode(value)) =>
                 /\ returned'[1].raised
                 /\ fs' = fs
          /\ \A n \in Nodes(fs) \ Nodes(fs') : UnderOutputRoot(n)]_vars

\* clean_directory("output2") is refused: output2/x and output/x stay.
C8_Witness ==
    /\ pc = "done"
    /\ value = <<"output", "2">>
    /\ returned[1] = Raise("ValueError")
    /\ fs \in FileSystems
    /\ Append(Node_output2, <<"x">>) \in fs.files
    /\ Append(Node_output, <<"x">>) \in fs.files

------------------------------------------------------------------------------
(* Files.  A path is a directory (the sequence of its folder names) and a   *)
(* file name (a sequence of tokens); a file on disk is its path and the     *)
(* frame that to_csv wrote to it.  A raw file also has a modification time. *)

Path(dir, name) == [dir |-> dir, name |-> name]

FullPath(path) == path.dir \o path.name

\* os.path.splitext(name)[0]
SplitExt(name) ==
    IF name # <<>> /\ name[Len(name)] = ".csv"
    THEN SubSeq(name, 1, Len(name) - 1)
    ELSE name

\* str.replace("_bronze", "")
RemoveBronze(name) == SelectSeq(name, LAMBDA w : w # "_bronze")

\* extract_ingest_date: the text after "ingest_date=" in the name of the
\* file's folder, or "unknown"
ExtractIngestDate(path) ==
    LET folder_name == IF path.dir = <<>> THEN "" ELSE path.dir[Len(path.dir)]
    IN  CASE folder_name = "ingest_date=2024-01-01" -> "2024-01-01"
          [] folder_name = "ingest_date=2024-01-02" -> "2024-01-02"
          [] folder_name = "ingest_date=unknown" -> "unknown"
          [] OTHER -> "unknown"

\* f"ingest_date={source_file_ingest_date}"
PartitionFolder(source_file_ingest_date) ==
    CASE source_file_ingest_date = "2024-01-01" -> "ingest_date=2024-01-01"
      [] source_file_ingest_date = "2024-01-02" -> "ingest_date=2024-01-02"
      [] source_file_ingest_date = "unknown" -> "ingest_date=unknown"

\* export_to_file: output/<layer>/<file_output> is created or overwritten
ExportToFile(output, partition, name, data, layer) ==
    LET path == Path(<<"output", layer>> \o partition, name)
    IN  {f \in output : f.path # path} \cup {[path |-> path, table |-> data]}

\* the files list_files_in_directory finds under a directory; os.walk gives
\* them in an order that the file system chooses
ListFilesInDirectory(files, directory_path) ==
    {f.path : f \in {g \in files :
        /\ IsPrefixNode(directory_path, g.path.dir)
        /\ g.path.name # <<>>
        /\ LowerToken(g.path.name[Len(g.path.name)]) = ".csv"}}

\* the orders in which a set of files can be listed
Orderings(S) ==
    {s \in [1..Cardinality(S) -> S] :
        \A i, j \in 1..Cardinality(S) : s[i] = s[j] => i = j}

FileAt(files, path) == CHOOSE f \in files : f.path = path

\* process_bronze_data: the raw frame with the five provenance columns,
\* written to output/bronze/<partition>/<name>_bronze.csv
ProcessBronzeData(d, input_file_path, now) ==
    LET raw == FileAt(d.input, input_file_path)
        source_file_ingest_date == ExtractIngestDate(input_file_path)
        folder == SetColumn(raw.table.rows, "_source_file_folder",
                            Some(input_file_path.dir))
        name == SetColumn(folder, "_source_file_name",
                          Some(input_file_path.name))
        ingest == SetColumn(name, "_source_file_ingest_date",
                            Some(source_file_ingest_date))
        modified == SetColumn(ingest, "_source_file_modified_ts",
                              Some(raw.mtime))
        processed == SetColumn(modified, "_processed_ts", Some(now))
        data == Table(raw.table.columns \o ProvenanceColumns, processed)
        clean_name == SplitExt(input_file_path.name)
    IN  [d EXCEPT !.output =
            ExportToFile(@, <<PartitionFolder(source_file_ingest_date)>>,
                         clean_name \o <<"_bronze", ".csv">>, data, "bronze")]

\* the end of process_silver_data for the outcome of the cleaner: a raised
\* exception escapes before anything is written, a returned frame gets the
\* new _processed_ts and goes to output/silver/<partition>/<name>_silver.csv
ExportSilver(d, bronze_file_path, processed, now) ==
    IF processed.raised THEN [outcome |-> processed, disk |-> d]
    ELSE [outcome |-> Return(TRUE),
          disk |-> [d EXCEPT !.output =
              ExportToFile(@,
                  <<PartitionFolder(ExtractIngestDate(bronze_file_path))>>,
                  RemoveBronze(SplitExt(bronze_file_path.name))
                      \o <<"_silver", ".csv">>,
                  Table(processed.v.columns,
                        SetColumn(processed.v.rows, "_processed_ts",
                                  Some(now))),
                  "silver")]]

\* _address_processing_function(source_file_name)(df)
Dispatch(source_file_name, df_read) ==
    IF AddressProcessingFunction(source_file_name) = "ValueError"
    THEN Raise("ValueError")
    ELSE ProcessTable(AddressProcessingFunction(source_file_name), df_read)

\* A silver driver that skips a file it has no cleaner for.
ProcessSilverDataSkipsUnrecognized(d, bronze_file_path, now) ==
    IF AddressProcessingFunction(bronze_file_path.name) = "ValueError"
    THEN [outcome |-> Return(TRUE), disk |-> d]
    ELSE ExportSilver(d, bronze_file_path,
             Dispatch(bronze_file_path.name,
                      FileAt(d.output, bronze_file_path).table), now)

\* process_silver_data: the outcome of the call and the disk it leaves.  The
\* frame is read with dtype=str, which already gives NaN for an empty field,
\* so _mark_empty_strings finds nothing to replace.
ProcessSilverData(d, bronze_file_path, now) ==
    ExportSilver(d, bronze_file_path,
        Dispatch(bronze_file_path.name,
                 FileAt(d.output, bronze_file_path).table), now)

------------------------------------------------------------------------------
(* Gold stage.  Money is counted in thousandths, time in hours. *)

\* the first three fraction digits of a decimal numeral, as a number
FracThousandths(frac) ==
    DigitsValue(SubSeq(frac \o <<"0", "0", "0">>, 1, 3))

\* a finite float of the silver stage, in thousandths
Thousandths(f) ==
    LET magnitude == f.int * 1000 + FracThousandths(f.frac)
    IN  IF f.neg THEN 0 - magnitude ELSE magnitude

\* round(2) on an amount in thousandths: to the nearest hundredth, a tie to
\* the even hundredth
Round2(m) ==
    LET r == m % 10
        down == m - r
    IN  IF r < 5 THEN down
        ELSE IF r > 5 THEN down + 10
        ELSE IF (down \div 10) % 2 = 0 THEN down ELSE down + 10

\* pd.to_numeric(errors="coerce").fillna(0) on a money column
MoneyToNumeric(c) == IF IsNull(c) THEN Some(0) ELSE Some(Thousandths(Val(c)))

\* pd.to_numeric(errors="coerce").fillna(0) on the quantity column
QuantityToNumeric(c) == IF IsNull(c) THEN Some(0) ELSE c

\* the columns of pd.concat: every column, in the order of first appearance
RECURSIVE ConcatColumns(_, _)
ConcatColumns(frames, seen) ==
    IF frames = <<>> THEN seen
    ELSE ConcatColumns(Tail(frames),
            seen \o SelectSeq(Head(frames).columns,
                              LAMBDA c : c \notin Range(seen)))

RECURSIVE ConcatRows(_, _)
ConcatRows(frames, columns) ==
    IF frames = <<>> THEN <<>>
    ELSE Reindex(Head(frames).rows, columns).rows
         \o ConcatRows(Tail(frames), columns)

\* pd.concat(frames, ignore_index=True)
Concat(frames) ==
    LET columns == ConcatColumns(frames, <<>>)
    IN  Table(columns, ConcatRows(frames, columns))

\* relevant_files of _load_silver_table: table_name in file_name
RelevantFiles(silver_files, table_name) ==
    SelectSeq(silver_files, LAMBDA p : Contains(FullPath(p), table_name))

\* A load that collapses the concatenation as the files were listed.
LoadSilverTableAsListed(files, silver_files, table_name, id_columns) ==
    LET relevant_files == RelevantFiles(silver_files, table_name)
        all == Concat([i \in 1..Len(relevant_files) |->
                          FileAt(files, relevant_files[i]).table])
    IN  IF relevant_files = <<>> THEN Return(EmptyFrame)
        ELSE IF ~(id_columns \subseteq Range(all.columns))
        THEN Raise("KeyError")
        ELSE Return(Table(all.columns, DropDuplicateRows(all.rows, id_columns)))

\* _load_silver_table: the frames of the files whose path contains
\* table_name, concatenated, sorted by _source_file_modified_ts descending
\* (rows that tie keep the order of the concatenation) and collapsed to the
\* first row of every key.  No file gives pd.DataFrame(); a key column that
\* no file has raises KeyError in drop_duplicates.
LoadSilverTable(files, silver_files, table_name, id_columns) ==
    LET relevant_files == RelevantFiles(silver_files, table_name)
        all == Concat([i \in 1..Len(relevant_files) |->
                          FileAt(files, relevant_files[i]).table])
        sorted == IF "_source_file_modified_ts" \in Range(all.columns)
                  THEN SortRowsBy(all.rows,
                                  <<By("_source_file_modified_ts", FALSE)>>)
                  ELSE all.rows
    IN  IF relevant_files = <<>> THEN Return(EmptyFrame)
        ELSE IF ~(id_columns \subseteq Range(all.columns))
        THEN Raise("KeyError")
        ELSE Return(Table(all.columns, DropDuplicateRows(sorted, id_columns)))

\* df.empty
IsEmpty(t) == t.columns = <<>> \/ t.rows = <<>>

\* df[[columns]] on a frame that may lack one of them
Project(t, columns) ==
    IF Range(columns) \subseteq Range(t.columns)
    THEN Return(Reindex(t.rows, columns))
    ELSE Raise("KeyError")

\* _create_dim_customers
CreateDimCustomers(df_customers) ==
    LET selected == Project(df_customers,
                        <<"customer_id", "state", "city", "created_ts">>)
    IN  IF IsEmpty(df_customers) THEN Return(EmptyFrame)
        ELSE IF selected.raised THEN selected
        ELSE Return(Table(selected.v.columns,
                 SortRowsBy(selected.v.rows, <<By("customer_id", TRUE)>>)))

\* _create_dim_products
CreateDimProducts(df_products) ==
    LET selected == Project(df_products,
                        <<"product_id", "category", "brand", "created_ts">>)
    IN  IF IsEmpty(df_products) THEN Return(EmptyFrame)
        ELSE IF selected.raised THEN selected
        ELSE Return(Table(selected.v.columns,
                 SortRowsBy(selected.v.rows, <<By("product_id", TRUE)>>)))

\* item_net_amount of one row of fact_order_items
ItemNetAmount(r) ==
    Some(Round2(Val(r.quantity) * Val(r.unit_price) - Val(r.discount_amount)))

\* _create_fact_order_items: the frame is indexed by "quantity",
\* "unit_price" and "discount_amount" whether it has them or not.
CreateFactOrderItems(df_order_items) ==
    LET numeric ==
            [i \in 1..Len(df_order_items.rows) |->
                [df_order_items.rows[i] EXCEPT
                    !.quantity = QuantityToNumeric(@),
                    !.unit_price = MoneyToNumeric(@),
                    !.discount_amount = MoneyToNumeric(@)]]
        net == [i \in 1..Len(numeric) |->
                   [c \in DOMAIN numeric[i] \cup {"item_net_amount"} |->
                       IF c = "item_net_amount" THEN ItemNetAmount(numeric[i])
                       ELSE numeric[i][c]]]
        ordered == Reindex(net, <<"order_id", "product_id", "quantity",
                                  "unit_price", "discount_amount",
                                  "item_net_amount">>)
    IN  IF ~({"quantity", "unit_price", "discount_amount"}
                \subseteq Range(df_order_items.columns))
        THEN Raise("KeyError")
        ELSE Return(Table(ordered.columns,
                 SortRowsBy(ordered.rows, <<By("order_id", TRUE),
                                            By("product_id", TRUE)>>)))

\* A sum that stops at the first row of the order.
RECURSIVE SumOverFirstItem(_, _, _)
SumOverFirstItem(rows, order_id, column) ==
    IF rows = <<>> THEN 0
    ELSE IF Head(rows).order_id = order_id
         THEN column[Len(column) - Len(rows) + 1]
         ELSE SumOverFirstItem(Tail(rows), order_id, column)

\* the sum of a column over the rows of one order
RECURSIVE SumOver(_, _, _)
SumOver(rows, order_id, column) ==
    IF rows = <<>> THEN 0
    ELSE (IF Head(rows).order_id = order_id
          THEN column[Len(column) - Len(rows) + 1] ELSE 0)
         + SumOver(Tail(rows), order_id, column)

\* _calc_amounts: one row per order_id of fact_order_items (groupby leaves
\* out a null key and sorts the keys)
CalcAmounts(df_fact_order_items) ==
    LET rows == df_fact_order_items.rows
        item_gross_amount ==
            [i \in 1..Len(rows) |-> Val(rows[i].quantity) * Val(rows[i].unit_price)]
        discount_amount ==
            [i \in 1..Len(rows) |-> Val(rows[i].discount_amount)]
        keys == DropDuplicateRows(
                    SortRowsBy(DropEmptyIds(rows, "order_id"),
                               <<By("order_id", TRUE)>>), {"order_id"})
    IN  Table(<<"order_id", "gross_amount", "discount_total", "net_amount">>,
              [i \in 1..Len(keys) |->
                  LET gross == Round2(SumOver(rows, keys[i].order_id,
                                              item_gross_amount))
                      discount == Round2(SumOver(rows, keys[i].order_id,
                                                 discount_amount))
                  IN  [order_id |-> keys[i].order_id,
                       gross_amount |-> Some(gross),
                       discount_total |-> Some(discount),
                       net_amount |-> Some(Round2(gross - discount))]])

\* Logistics in which a shipment without a delivery time counts as late.
PrepareLogisticsDataLateWhenUnknown(df_shipments) ==
    Table(df_shipments.columns \o <<"delivery_time_hours", "is_late">>,
          [i \in 1..Len(df_shipments.rows) |->
              LET r == df_shipments.rows[i]
                  hours == IF NotNull(r.delivered_ts) /\ NotNull(r.shipped_ts)
                           THEN Some((Val(r.delivered_ts) - Val(r.shipped_ts)) * 24)
                           ELSE NULL
              IN  [c \in DOMAIN r \cup {"delivery_time_hours", "is_late"} |->
                      CASE c = "shipping_cost" -> MoneyToNumeric(r.shipping_cost)
                        [] c = "delivery_time_hours" -> hours
                        [] c = "is_late" -> Some(IsNull(hours) \/ Val(hours) > 72)
                        [] OTHER -> r[c]]])

\* _prepare_logistics_data
PrepareLogisticsData(df_shipments) ==
    Table(df_shipments.columns \o <<"delivery_time_hours", "is_late">>,
          [i \in 1..Len(df_shipments.rows) |->
              LET r == df_shipments.rows[i]
                  hours == IF NotNull(r.delivered_ts) /\ NotNull(r.shipped_ts)
                           THEN Some((Val(r.delivered_ts) - Val(r.shipped_ts)) * 24)
                           ELSE NULL
              IN  [c \in DOMAIN r \cup {"delivery_time_hours", "is_late"} |->
                      CASE c = "shipping_cost" -> MoneyToNumeric(r.shipping_cost)
                        [] c = "delivery_time_hours" -> hours
                        [] c = "is_late" -> Some(NotNull(hours) /\ Val(hours) > 72)
                        [] OTHER -> r[c]]])

\* The rows a left row gets in an inner join: none without a match.
MergeOneInner(l, right, columns) ==
    LET matches == SelectSeq(right, LAMBDA r : r.order_id = l.order_id)
    IN  [i \in 1..Len(matches) |->
            [c \in DOMAIN l \cup Range(columns) |->
                IF c \in DOMAIN l THEN l[c] ELSE matches[i][c]]]

\* the rows a left row gets in left.merge(right, on="order_id", how="left")
MergeOne(l, right, columns) ==
    LET matches == SelectSeq(right, LAMBDA r : r.order_id = l.order_id)
        joined(r) == [c \in DOMAIN l \cup Range(columns) |->
                         IF c \in DOMAIN l THEN l[c] ELSE r[c]]
        alone == [c \in DOMAIN l \cup Range(columns) |->
                     IF c \in DOMAIN l THEN l[c] ELSE NULL]
    IN  IF matches = <<>> THEN <<alone>>
        ELSE [i \in 1..Len(matches) |-> joined(matches[i])]

\* left.merge(right[columns], on="order_id", how="left")
RECURSIVE MergeLeft(_, _, _)
MergeLeft(left, right, columns) ==
    IF left = <<>> THEN <<>>
    ELSE MergeOne(Head(left), right, columns)
         \o MergeLeft(Tail(left), right, columns)

\* df.rename(columns={"status": "status_final"}) and order_date on one row
WithStatusFinalAndOrderDate(r) ==
    LET renamed == IF "status" \in DOMAIN r THEN {"status_final"} ELSE {}
    IN  [c \in (DOMAIN r \ {"status"}) \cup renamed \cup {"order_date"} |->
            CASE c = "status_final" -> r.status
              [] c = "order_date" -> r.order_ts
              [] OTHER -> r[c]]

\* _create_fact_orders: df_orders.merge(on="order_id") needs the column
\* order_id in df_orders, and order_date the column order_ts.
CreateFactOrders(df_orders, df_fact_order_items, df_shipments) ==
    LET fact_orders_agg == CalcAmounts(df_fact_order_items)
        with_amounts == MergeLeft(df_orders.rows, fact_orders_agg.rows,
                            <<"gross_amount", "discount_total", "net_amount">>)
        shipment_cols == <<"carrier", "shipping_cost", "shipped_ts",
                           "delivered_ts", "delivery_time_hours", "is_late">>
        with_shipments ==
            IF ~IsEmpty(df_shipments)
            THEN MergeLeft(with_amounts,
                           PrepareLogisticsData(df_shipments).rows,
                           shipment_cols)
            ELSE MergeLeft(with_amounts, <<>>, shipment_cols)
        renamed == [i \in 1..Len(with_shipments) |->
                       WithStatusFinalAndOrderDate(with_shipments[i])]
        ordered == Reindex(renamed,
            <<"order_id", "customer_id", "order_date", "order_ts",
              "gross_amount", "discount_total", "net_amount",
              "payment_method", "status_final", "carrier", "shipping_cost",
              "shipped_ts", "delivered_ts", "delivery_time_hours", "is_late">>)
    IN  IF ~({"order_id", "order_ts"} \subseteq Range(df_orders.columns))
        THEN Raise("KeyError")
        ELSE Return(Table(ordered.columns,
                 SortRowsBy(ordered.rows, <<By("order_id", TRUE),
                                            By("customer_id", TRUE)>>)))

\* the five loads of process_gold_data, in the order of the source
SilverTableNames ==
    <<[entity |-> "orders", table_name |-> <<"orders", "_silver", ".csv">>,
       id_columns |-> {"order_id"}],
      [entity |-> "order_items",
       table_name |-> <<"order_items", "_silver", ".csv">>,
       id_columns |-> {"order_id", "product_id"}],
      [entity |-> "customers",
       table_name |-> <<"customers", "_silver", ".csv">>,
       id_columns |-> {"customer_id"}],
      [entity |-> "products",
       table_name |-> <<"products", "_silver", ".csv">>,
       id_columns |-> {"product_id"}],
      [entity |-> "shipments",
       table_name |-> <<"shipments", "_silver", ".csv">>,
       id_columns |-> {"order_id"}]>>

\* the outcome of the i-th load
Load(files, silver_files, i) ==
    LoadSilverTable(files, silver_files, SilverTableNames[i].table_name,
                    SilverTableNames[i].id_columns)

\* the four exports of process_gold_data, reached when no frame raised
ExportGold(d, dim_customers, dim_products, fact_order_items, fact_orders) ==
    IF dim_customers.raised THEN [outcome |-> dim_customers, disk |-> d]
    ELSE IF dim_products.raised THEN [outcome |-> dim_products, disk |-> d]
    ELSE IF fact_order_items.raised
    THEN [outcome |-> fact_order_items, disk |-> d]
    ELSE IF fact_orders.raised THEN [outcome |-> fact_orders, disk |-> d]
    ELSE [outcome |-> Return(TRUE),
          disk |-> [d EXCEPT !.output =
            ExportToFile(
              ExportToFile(
                ExportToFile(
                  ExportToFile(@, <<>>, <<"dim_customers", ".csv">>,
                               dim_customers.v, "gold"),
                  <<>>, <<"dim_products", ".csv">>, dim_products.v, "gold"),
                <<>>, <<"fact_order_items", ".csv">>, fact_order_items.v,
                "gold"),
              <<>>, <<"fact_orders", ".csv">>, fact_orders.v, "gold")]]

\* fact_orders from the outcome of _create_fact_order_items
FactOrdersFrom(df_orders, fact_order_items, df_shipments) ==
    IF fact_order_items.raised THEN fact_order_items
    ELSE CreateFactOrders(df_orders, fact_order_items.v, df_shipments)

\* process_gold_data after the five loads: the dimensions, the facts and
\* the exports
BuildGold(d, loads, fact_order_items) ==
    ExportGold(d, CreateDimCustomers(loads[3].v),
               CreateDimProducts(loads[4].v), fact_order_items,
               FactOrdersFrom(loads[1].v, fact_order_items, loads[5].v))

\* process_gold_data for the outcomes of the five loads: the first load that
\* raised ends the call
GoldFromLoads(d, loads) ==
    IF \E i \in 1..5 : loads[i].raised
    THEN [outcome |-> loads[CHOOSE i \in 1..5 :
                                /\ loads[i].raised
                                /\ \A j \in 1..(i - 1) : ~loads[j].raised],
          disk |-> d]
    ELSE BuildGold(d, loads, CreateFactOrderItems(loads[2].v))

\* process_gold_data: the outcome of the call and the disk it leaves.  The
\* four exports come after the four frames are built, so a call that raises
\* writes nothing.
ProcessGoldData(d, silver_files) ==
    GoldFromLoads(d, [i \in 1..5 |-> Load(d.output, silver_files, i)])

------------------------------------------------------------------------------
(* run_pipeline on an input/ directory, and run again on the same input *)

MaxFiles == 3

MaxRuns == 2

Dir_day1 == <<"input", "ingest_date=2024-01-01">>

Dir_day2 == <<"input", "ingest_date=2024-01-02">>

Dir_day3 == <<"input", "ingest_date=2024-01-03">>

RawFile(dir, name, columns, cells) ==
    [path |-> Path(dir, name), mtime |-> 1,
     table |-> Table(columns, <<cells>>)]

\* a raw file of several rows, with the modification time the file system
\* reports for it
RawFileModified(dir, name, mtime, columns, rows) ==
    [path |-> Path(dir, name), mtime |-> mtime, table |-> Table(columns, rows)]

OrdersColumns ==
    <<"order_id", "customer_id", "order_ts", "status", "payment_method",
      "total_amount", "currency", "sales_channel">>

RawOrder(order_id, customer_id, payment_method) ==
    [order_id |-> Some(order_id), customer_id |-> Some(customer_id),
     order_ts |-> Some("2024-01-02"), status |-> Some(Text_Delivered),
     payment_method |-> Some(payment_method),
     total_amount |-> Some(Text_2026), currency |-> Some(Text_brl),
     sales_channel |-> Some(Text_web)]

OrderItemsColumns ==
    <<"order_id", "product_id", "quantity", "unit_price", "discount_amount">>

RawOrderItem(order_id) ==
    [order_id |-> Some(order_id), product_id |-> Some(1),
     quantity |-> Some(Text_two), unit_price |-> Some(Text_10p5),
     discount_amount |-> NULL]

CustomersColumns == <<"customer_id", "state", "city", "created_ts", "phone">>

ShipmentsColumns ==
    <<"order_id", "carrier", "shipping_cost", "shipped_ts", "delivered_ts",
      "delivery_status">>

\* The raw files a run can find; all but one have the same modification
\* time.
RawFiles ==
    {RawFile(Dir_day1, <<"orders", ".csv">>, OrdersColumns,
             RawOrder(1, 1, Text_pix)),
     RawFileModified(Dir_day2, <<"orders", ".csv">>, 1, OrdersColumns,
             <<RawOrder(1, 2, Text_web), RawOrder(2, 1, Text_pix)>>),
     RawFile(Dir_day1, <<"orders", "_2024", ".csv">>, OrdersColumns,
             RawOrder(2, 1, Text_pix)),
     RawFile(Dir_day1, <<"order_items", ".csv">>, OrderItemsColumns,
             RawOrderItem(1)),
     RawFile(Dir_day1, <<"order_items", "_", "customers", ".csv">>,
             OrderItemsColumns, RawOrderItem(2)),
     RawFile(Dir_day1, <<"customers", ".csv">>, CustomersColumns,
             [customer_id |-> Some(1), state |-> Some(Text_sp),
              city |-> Some(Text_Sao), created_ts |-> Some("2024-01-02"),
              phone |-> Some(Text_Phone)]),
     RawFile(<<"input">>, <<"shipments", ".csv">>, ShipmentsColumns,
             [order_id |-> Some(1), carrier |-> Some(Text_Sao),
              shipping_cost |-> Some(Text_10p5),
              shipped_ts |-> Some("2024-01-02"),
              delivered_ts |-> Some("01/02/2024"),
              delivery_status |-> Some(Text_Delivered)]),
     RawFile(Dir_day1, <<"misc", ".csv">>, <<"order_id">>,
             [order_id |-> Some(1)]),
     RawFile(Dir_day2, <<"order_items", ".csv">>, OrderItemsColumns,
             [order_id |-> Some(1), product_id |-> Some(2),
              quantity |-> Some(Text_3), unit_price |-> Some(Text_26p334),
              discount_amount |-> Some(Text_10)]),
     RawFileModified(Dir_day3, <<"orders", ".csv">>, 2, OrdersColumns,
             <<RawOrder(1, 3, Text_web)>>),
     RawFile(Dir_day1, <<"shipments", ".csv">>, ShipmentsColumns,
             [order_id |-> Some(1), carrier |-> Some(Text_Sao),
              shipping_cost |-> NULL,
              shipped_ts |-> Some("2024-01-02"),
              delivered_ts |-> Some("2024-01-09"),
              delivery_status |-> Some(Text_IN_TRANSIT)])}

\* two orders, an item of the first and two shipment files for it
OrderWithTwoShipments ==
    {f \in RawFiles :
        \/ f.path = Path(Dir_day2, <<"orders", ".csv">>)
        \/ f.path = Path(Dir_day1, <<"order_items", ".csv">>)
        \/ f.path.name = <<"shipments", ".csv">>}

\* the contents of input/: up to MaxFiles of the raw files, or the four of
\* OrderWithTwoShipments
Inputs ==
    {input \in SUBSET RawFiles : input # {} /\ Cardinality(input) <= MaxFiles}
    \cup {OrderWithTwoShipments}

InitPipeline ==
    /\ pc = "clean"
    /\ NoPrimitive
    /\ NoCleaner
    /\ NoDirectory
    /\ \E input \in Inputs : disk = [input |-> input, output |-> {}]
    /\ file_list = <<>>
    /\ clock = 1
    /\ run = 1
    /\ first_run = Unused

\* clean_directory("output/"), time.sleep(3) and the listing of input/
CleanOutput ==
    /\ pc = "clean"
    /\ disk' = [disk EXCEPT !.output = {}]
    /\ clock' = clock + 1
    /\ file_list' \in Orderings(ListFilesInDirectory(disk.input, <<"input">>))
    /\ pc' = "bronze"
    /\ UNCHANGED <<primitiveVars, cleanerVars, fs, run, first_run>>

\* one turn of the loop over raw_files
BronzeStep ==
    /\ pc = "bronze"
    /\ file_list # <<>>
    /\ disk' = ProcessBronzeData(disk, Head(file_list), clock)
    /\ file_list' = Tail(file_list)
    /\ UNCHANGED <<pc, primitiveVars, cleanerVars, fs, clock, run, first_run>>

\* the end of the bronze loop, time.sleep(3) and the listing of
\* output/bronze/
BronzeDone ==
    /\ pc = "bronze"
    /\ file_list = <<>>
    /\ clock' = clock + 1
    /\ file_list' \in Orderings(ListFilesInDirectory(disk.output,
                                                     <<"output", "bronze">>))
    /\ pc' = "silver"
    /\ UNCHANGED <<primitiveVars, cleanerVars, fs, disk, run, first_run>>

\* one turn of the loop over bronze_files in which process_silver_data
\* returns, given the outcome of the call
SilverReturns(call) ==
    /\ ~call.outcome.raised
    /\ disk' = call.disk
    /\ file_list' = Tail(file_list)
    /\ UNCHANGED <<pc, primitiveVars, cleanerVars, fs, clock, run, first_run>>

SilverStep ==
    /\ pc = "silver"
    /\ file_list # <<>>
    /\ SilverReturns(ProcessSilverData(disk, Head(file_list), clock))

\* a turn in which process_silver_data raises: nothing in run_pipeline
\* catches the exception, the run ends there
SilverRaises(call) ==
    /\ call.outcome.raised
    /\ disk' = call.disk
    /\ pc' = "silver_failed"
    /\ UNCHANGED <<primitiveVars, cleanerVars, fs, file_list, clock, run,
                   first_run>>

SilverFails ==
    /\ pc = "silver"
    /\ file_list # <<>>
    /\ SilverRaises(ProcessSilverData(disk, Head(file_list), clock))

\* the end of the silver loop, time.sleep(3) and the listing of
\* output/silver/
SilverDone ==
    /\ pc = "silver"
    /\ file_list = <<>>
    /\ clock' = clock + 1
    /\ file_list' \in Orderings(ListFilesInDirectory(disk.output,
                                                     <<"output", "silver">>))
    /\ pc' = "gold"
    /\ UNCHANGED <<primitiveVars, cleanerVars, fs, disk, run, first_run>>

\* process_gold_data(silver_files) returns
GoldReturns(call) ==
    /\ ~call.outcome.raised
    /\ disk' = call.disk
    /\ pc' = "done"
    /\ UNCHANGED <<primitiveVars, cleanerVars, fs, file_list, clock, run,
                   first_run>>

GoldStep ==
    /\ pc = "gold"
    /\ GoldReturns(ProcessGoldData(disk, file_list))

\* process_gold_data(silver_files) raises
GoldRaises(call) ==
    /\ call.outcome.raised
    /\ disk' = call.disk
    /\ pc' = "gold_failed"
    /\ UNCHANGED <<primitiveVars, cleanerVars, fs, file_list, clock, run,
                   first_run>>

GoldFails ==
    /\ pc = "gold"
    /\ GoldRaises(ProcessGoldData(disk, file_list))

\* a frame without its _processed_ts column
WithoutProcessedTs(t) ==
    IF "_processed_ts" \in Range(t.columns)
    THEN DropColumn(t, "_processed_ts")
    ELSE t

\* what a run left: how it ended and output/ without the _processed_ts
Outputs ==
    [pc |-> pc,
     files |-> {[path |-> f.path, table |-> WithoutProcessedTs(f.table)] :
                   f \in disk.output}]

\* the program is started again on the same input/
RunAgain ==
    /\ pc \in {"done", "silver_failed", "gold_failed"}
    /\ run < MaxRuns
    /\ run' = run + 1
    /\ first_run' = IF run = 1 THEN Outputs ELSE first_run
    /\ file_list' = <<>>
    /\ pc' = "clean"
    /\ UNCHANGED <<primitiveVars, cleanerVars, fs, disk, clock>>

NextPipeline ==
    \/ CleanOutput
    \/ BronzeStep
    \/ BronzeDone
    \/ SilverStep
    \/ SilverFails
    \/ SilverDone
    \/ GoldStep
    \/ GoldFails
    \/ RunAgain

SpecPipeline == InitPipeline /\ [][NextPipeline]_vars

\* how a run of the pipeline can end
Ended == pc \in {"done", "silver_failed", "gold_failed"}

Paths(files) == {f.path : f \in files}

BronzeFilesOnDisk == ListFilesInDirectory(disk.output, <<"output", "bronze">>)

Recognized(path) == AddressProcessingFunction(path.name) # "ValueError"

\* the silver file process_silver_data writes for a bronze file
SilverPathOf(bronze_file_path) ==
    Path(<<"output", "silver",
           PartitionFolder(ExtractIngestDate(bronze_file_path))>>,
         RemoveBronze(SplitExt(bronze_file_path.name))
             \o <<"_silver", ".csv">>)

HasSilver(bronze_file_path) ==
    SilverPathOf(bronze_file_path) \in Paths(disk.output)

GoldFilesOnDisk == {f \in disk.output : f.path.dir = <<"output", "gold">>}

\* C4 as stated: when a bronze file has a name that matches no entity
\* keyword, the run still processes every other bronze file into its silver
\* file and still gets to the gold stage.
C4_FailureIsolated ==
    (Ended /\ \E b \in BronzeFilesOnDisk : ~Recognized(b)) =>
        /\ \A b \in BronzeFilesOnDisk : Recognized(b) => HasSilver(b)
        /\ pc \in {"done", "gold_failed"}

\* C4: a bronze file whose name matches no entity keyword ends the run at
\* that file: the gold stage is reached only when every bronze name is
\* recognized, and when the silver loop has failed exactly the bronze files
\* listed before the failing one have a silver file and nothing is in gold.
C4_UnrecognizedAborts ==
    /\ pc \in {"gold", "done", "gold_failed"} =>
           \A b \in BronzeFilesOnDisk : Recognized(b)
    /\ pc = "silver_failed" =>
           /\ file_list # <<>>
           /\ \A b \in BronzeFilesOnDisk :
                  HasSilver(b) <=> b \notin Range(file_list)
           /\ GoldFilesOnDisk = {}

\* The silver loop failed on an unrecognized name after it had processed a
\* file, and a recognized file was still waiting.
C4_Witness ==
    /\ pc = "silver_failed"
    /\ ~Recognized(Head(file_list))
    /\ Len(file_list) >= 2
    /\ Recognized(file_list[2])
    /\ ~HasSilver(file_list[2])
    /\ \E b \in BronzeFilesOnDisk : HasSilver(b)

\* C5: process_gold_data does not fail because an entity has no silver file
\* in its list: a call whose five loads all return (an absent entity gives
\* the empty frame) writes the gold outputs.
C5_MissingEntityTolerated ==
    pc = "gold_failed" =>
        \E i \in 1..5 : Load(disk.output, file_list, i).raised

\* C6: the gold stage loads a silver file into the table of an entity exactly
\* when the silver dispatcher cleaned the file as that entity.
C6_SilverFilesLoadedByEntity ==
    pc = "gold" =>
        \A i \in 1..Len(file_list) : \A k \in 1..5 :
            Contains(FullPath(file_list[i]), SilverTableNames[k].table_name)
            <=> AddressProcessingFunction(file_list[i].name)
                    = SilverTableNames[k].entity

\* C7: when two runs on the same input both complete, the second leaves the
\* same files with the same rows in the same order as the first,
\* _processed_ts apart, whatever the order in which the files were listed.
C7_RerunReproducesOutputs ==
    (run >= 2 /\ pc = "done" /\ first_run.pc = "done") =>
        Outputs = first_run

\* the frame of a gold file on disk
GoldTable(name) ==
    (CHOOSE f \in disk.output :
        f.path = Path(<<"output", "gold">>, <<name, ".csv">>)).table

RECURSIVE SumSeq(_)
SumSeq(s) == IF s = <<>> THEN 0 ELSE Head(s) + SumSeq(Tail(s))

\* the rows of fact_order_items of one order
ItemsOf(order_id) ==
    SelectSeq(GoldTable("fact_order_items").rows,
              LAMBDA r : r.order_id = order_id)

GrossOf(items) ==
    Round2(SumSeq([i \in 1..Len(items) |->
                      Val(items[i].quantity) * Val(items[i].unit_price)]))

DiscountOf(items) ==
    Round2(SumSeq([i \in 1..Len(items) |-> Val(items[i].discount_amount)]))

\* C13: for every order of fact_orders that has a row in fact_order_items,
\* gross_amount is the rounded sum of quantity * unit_price over the order's
\* items, discount_total the rounded sum of discount_amount, and net_amount
\* the rounded difference of the two.
C13_OrderAmounts ==
    pc = "done" =>
        \A i \in 1..Len(GoldTable("fact_orders").rows) :
            LET o == GoldTable("fact_orders").rows[i]
                items == ItemsOf(o.order_id)
            IN  items # <<>> =>
                    /\ o.gross_amount = Some(GrossOf(items))
                    /\ o.discount_total = Some(DiscountOf(items))
                    /\ o.net_amount =
                           Some(Round2(GrossOf(items) - DiscountOf(items)))

\* An order with two items, gross 100.00 and discount 10.00, has net 90.00.
C13_Witness ==
    /\ pc = "done"
    /\ \E i \in 1..Len(GoldTable("fact_orders").rows) :
          LET o == GoldTable("fact_orders").rows[i]
          IN  /\ Len(ItemsOf(o.order_id)) = 2
              /\ o.gross_amount = Some(100000)
              /\ o.discount_total = Some(10000)
              /\ o.net_amount = Some(90000)

\* the shipments table process_gold_data loads from the silver files
ShipmentsLoaded == Load(disk.output, file_list, 5).v.rows

HasShipment(order_id) ==
    \E j \in 1..Len(ShipmentsLoaded) : ShipmentsLoaded[j].order_id = order_id

\* C14: a fact_orders row whose order has no row in the shipments table
\* (empty or not) has null carrier, shipping_cost and delivery_time_hours,
\* and no row with a null delivery_time_hours has is_late true.
C14_NoShipmentNoLogistics ==
    pc = "done" =>
        \A i \in 1..Len(GoldTable("fact_orders").rows) :
            LET o == GoldTable("fact_orders").rows[i]
            IN  /\ ~HasShipment(o.order_id) =>
                       /\ IsNull(o.carrier)
                       /\ IsNull(o.shipping_cost)
                       /\ IsNull(o.delivery_time_hours)
                /\ IsNull(o.delivery_time_hours) => o.is_late # Some(TRUE)

\* fact_orders has an order whose shipment has no delivery time and is not
\* late, and an order that the non-empty shipments table lacks.
C14_Witness ==
    /\ pc = "done"
    /\ ShipmentsLoaded # <<>>
    /\ \E i, j \in 1..Len(GoldTable("fact_orders").rows) :
          LET o == GoldTable("fact_orders").rows[i]
              u == GoldTable("fact_orders").rows[j]
          IN  /\ HasShipment(o.order_id)
              /\ NotNull(o.carrier)
              /\ IsNull(o.delivery_time_hours)
              /\ o.is_late = Some(FALSE)
              /\ ~HasShipment(u.order_id)
              /\ IsNull(u.carrier)
              /\ IsNull(u.is_late)

\* fact_orders of a run without any shipments file: every logistics column
\* is null.
C14_WitnessEmpty ==
    /\ pc = "done"
    /\ ShipmentsLoaded = <<>>
    /\ GoldTable("fact_orders").rows # <<>>

\* the silver stage is over and file_list is the listing of output/silver/
SilverListed == pc \in {"gold", "done", "gold_failed"}

\* the identity key and the modification time of a row of a silver file; a
\* column the file lacks is null in the concatenation
KeyOf(r, id_columns) ==
    [c \in id_columns |-> IF c \in DOMAIN r THEN r[c] ELSE NULL]

ModifiedTs(r) == Val(r["_source_file_modified_ts"])

\* the rows of the silver files that the i-th load reads
SilverRows(i) ==
    UNION {Range(FileAt(disk.output, p).table.rows) :
              p \in Range(RelevantFiles(file_list,
                                        SilverTableNames[i].table_name))}

\* the rows the i-th load keeps for the key of r
KeptFor(i, r) ==
    {k \in 1..Len(Load(disk.output, file_list, i).v.rows) :
        KeyOf(Load(disk.output, file_list, i).v.rows[k],
              SilverTableNames[i].id_columns)
            = KeyOf(r, SilverTableNames[i].id_columns)}

\* C15: for every key of the silver files of an entity, the load keeps
\* exactly one row, and no row of that key in any of the files was modified
\* later than the kept one, in whatever order the files were listed.
C15_LatestModifiedWins ==
    SilverListed =>
        \A i \in 1..5 :
            ~Load(disk.output, file_list, i).raised =>
                \A r \in SilverRows(i) :
                    /\ Cardinality(KeptFor(i, r)) = 1
                    /\ \A k \in KeptFor(i, r) : \A s \in SilverRows(i) :
                           KeyOf(s, SilverTableNames[i].id_columns)
                               = KeyOf(r, SilverTableNames[i].id_columns)
                           => ModifiedTs(s) <=
                                  ModifiedTs(Load(disk.output, file_list,
                                                  i).v.rows[k])

\* Order 1 is in two partitions; the file modified first is listed first,
\* and fact_orders has the order as the file modified last gives it.
C15_Witness ==
    /\ pc = "done"
    /\ Len(RelevantFiles(file_list, SilverTableNames[1].table_name)) = 2
    /\ ModifiedTs(FileAt(disk.output,
                         RelevantFiles(file_list,
                             SilverTableNames[1].table_name)[1]).table.rows[1])
           = 1
    /\ Cardinality({KeyOf(r, {"order_id"}) : r \in SilverRows(1)}) = 1
    /\ Len(Load(disk.output, file_list, 1).v.rows) = 1
    /\ ModifiedTs(Load(disk.output, file_list, 1).v.rows[1]) = 2
    /\ GoldTable("fact_orders").rows[1].customer_id = Some(3)

\* the bronze files that have a silver file, when the silver loop is over
CleanedBronzeFiles ==
    {b \in disk.output :
        /\ b.path \in BronzeFilesOnDisk
        /\ HasSilver(b.path)}

SilverFileOf(b) == FileAt(disk.output, SilverPathOf(b.path))

SourceFileFields ==
    {"_source_file_folder", "_source_file_name", "_source_file_ingest_date",
     "_source_file_modified_ts"}

\* the processing timestamps a silver row carries: its _processed_ts and
\* the columns the silver stage added to those of the bronze frame
ProcessingTimestamps(s, b) ==
    {s[c] : c \in {"_processed_ts"} \cup (DOMAIN s \ Range(b.table.columns))}

\* the four source-file fields of every silver row are those of a row of
\* the bronze file it was cleaned from
SourceFieldsPreserved ==
    \A b \in CleanedBronzeFiles :
        \A i \in 1..Len(SilverFileOf(b).table.rows) :
            \E j \in 1..Len(b.table.rows) :
                \A c \in SourceFileFields :
                    SilverFileOf(b).table.rows[i][c] = b.table.rows[j][c]

\* every silver row still carries the processing timestamp of the bronze
\* rows of its file
BronzeProcessedTsKept ==
    \A b \in CleanedBronzeFiles :
        \A i \in 1..Len(SilverFileOf(b).table.rows) :
            \E j \in 1..Len(b.table.rows) :
                b.table.rows[j]["_processed_ts"]
                    \in ProcessingTimestamps(SilverFileOf(b).table.rows[i], b)

\* C18: on every silver row the four source-file fields equal those of the
\* bronze row it was cleaned from, and the row carries the silver
\* processing timestamp without losing the bronze one.
C18_ProvenanceAppendOnly ==
    SilverListed => SourceFieldsPreserved /\ BronzeProcessedTsKept

\* the part of C18 about the source-file fields alone
C18_SourceFieldsKept == SilverListed => SourceFieldsPreserved

\* the collapsed orders table process_gold_data loads from the silver files
OrdersLoaded == Load(disk.output, file_list, 1).v.rows

FactOrdersOf(order_id) ==
    {i \in 1..Len(GoldTable("fact_orders").rows) :
        GoldTable("fact_orders").rows[i].order_id = order_id}

\* C19: fact_orders has exactly one row for every order_id of the collapsed
\* orders table, and no row for any other order_id.
C19_OneFactRowPerOrder ==
    pc = "done" =>
        /\ \A k \in 1..Len(OrdersLoaded) :
               Cardinality(FactOrdersOf(OrdersLoaded[k].order_id)) = 1
        /\ \A i \in 1..Len(GoldTable("fact_orders").rows) :
               \E k \in 1..Len(OrdersLoaded) :
                   OrdersLoaded[k].order_id
                       = GoldTable("fact_orders").rows[i].order_id

\* Two orders, the first with an item and with a shipment row in each of
\* two silver files, the second with neither: fact_orders has one row for
\* each.
C19_Witness ==
    /\ pc = "done"
    /\ Len(OrdersLoaded) = 2
    /\ Len(RelevantFiles(file_list, SilverTableNames[5].table_name)) = 2
    /\ Len(ItemsOf(Some(1))) = 1
    /\ ItemsOf(Some(2)) = <<>>
    /\ Len(GoldTable("fact_orders").rows) = 2
    /\ Cardinality(FactOrdersOf(Some(1))) = 1
    /\ Cardinality(FactOrdersOf(Some(2))) = 1
    /\ NotNull(GoldTable("fact_orders").rows[1].carrier)
    /\ IsNull(GoldTable("fact_orders").rows[2].carrier)

====
